---- MODULE Spec2Model ----
(***************************************************************************)
(* Verification model of the sow-po-manager pipeline stages.               *)
(*                                                                         *)
(* Part 1: chunk_text (src/lambdas/chunk_and_embed/handler.py), the        *)
(*         sliding-window chunker, as an operator and as a step machine.   *)
(* Part 2: the chunk_and_embed lambda_handler as a state machine over a    *)
(*         content store, a derivation endpoint and the next queue, with   *)
(*         redelivery, crashes and concurrent invocations.                 *)
(***************************************************************************)
EXTENDS Integers, Sequences, FiniteSets, TLC

(***************************************************************************)
(* Bounds of the model                                                     *)
(***************************************************************************)
\* longest source text enumerated exhaustively by the chunker specification
MaxTextLen == 4
\* largest CHUNK_SIZE / CHUNK_OVERLAP enumerated by the chunker specification
MaxChunkSize == 3

\* characters of a text: two non-blank characters and one whitespace character
Chars == {"a", "b", " "}

Min(a, b) == IF a < b THEN a ELSE b
Max(a, b) == IF a > b THEN a ELSE b

\* all texts over a character set of length at most n
TextsUpTo(cs, n) == UNION {[1..k -> cs] : k \in 0..n}

\* the 100-character text of test_chunk_text_with_valid_params ("A" * 100)
ExampleText == [i \in 1..100 |-> "a"]

(***************************************************************************)
(* chunk_text                                                              *)
(***************************************************************************)
\* chunk.strip() is empty: the chunk holds whitespace only
IsBlank(chunk) == \A i \in 1..Len(chunk) : chunk[i] = " "

\* text[start:end] for 0 <= start, 0 <= end <= len(text)
Slice(text, start, end) == SubSeq(text, start + 1, end)

\* the exception raised by chunk_text on an invalid configuration
ValueError == "ValueError"

\* chunk_iter with the next window starting at end, the overlap forgotten
chunk_iter_no_overlap(text, chunk_size, overlap, st) ==
    LET n      == Len(text)
        end    == Min(st.start + chunk_size, n)
        chunk  == Slice(text, st.start, end)
        chunks == IF ~IsBlank(chunk) THEN Append(st.chunks, chunk) ELSE st.chunks
        starts == IF ~IsBlank(chunk) THEN Append(st.starts, st.start) ELSE st.starts
    IN  IF end = n
        THEN [start |-> st.start, chunks |-> chunks, starts |-> starts, brk |-> TRUE]
        ELSE [start |-> Max(0, end), chunks |-> chunks, starts |-> starts, brk |-> FALSE]

\* one pass through the body of the while loop of chunk_text, entered with
\* start < n.  st.starts records the start offset of every appended chunk.
chunk_iter(text, chunk_size, overlap, st) ==
    LET n      == Len(text)
        end    == Min(st.start + chunk_size, n)
        chunk  == Slice(text, st.start, end)
        chunks == IF ~IsBlank(chunk) THEN Append(st.chunks, chunk) ELSE st.chunks
        starts == IF ~IsBlank(chunk) THEN Append(st.starts, st.start) ELSE st.starts
    IN  IF end = n
        THEN [start |-> st.start, chunks |-> chunks, starts |-> starts, brk |-> TRUE]
        ELSE [start |-> Max(0, end - overlap), chunks |-> chunks, starts |-> starts,
              brk |-> FALSE]

\* the loop condition of chunk_text
chunk_loop_running(text, st) == ~st.brk /\ st.start < Len(text)

RECURSIVE chunk_loop(_, _, _, _)
chunk_loop(text, chunk_size, overlap, st) ==
    IF chunk_loop_running(text, st)
    THEN chunk_loop(text, chunk_size, overlap, chunk_iter(text, chunk_size, overlap, st))
    ELSE st

\* the state of chunk_text before the first pass of the loop
chunk_start == [start |-> 0, chunks |-> <<>>, starts |-> <<>>, brk |-> FALSE]

\* the overlap guard at the head of chunk_text
chunk_config_invalid(chunk_size, overlap) == overlap >= chunk_size

\* chunk_text(text, chunk_size, overlap): raises ValueError, or returns chunks
chunk_text(text, chunk_size, overlap) ==
    IF chunk_config_invalid(chunk_size, overlap)
    THEN [raised |-> TRUE, chunks |-> <<>>]
    ELSE [raised |-> FALSE,
          chunks |-> chunk_loop(text, chunk_size, overlap, chunk_start).chunks]

(***************************************************************************)
(* chunk_and_embed: configuration, content store keys, envelopes           *)
(***************************************************************************)
\* BUCKET_NAME, the bucket used when the message carries no s3_bucket
BUCKET_NAME == "b1"
Buckets == {"b1", "b2"}

\* EMBED_S3_PREFIX (default)
EMBED_S3_PREFIX == "embeddings/"

\* default of max_attempts of generate_embedding_with_backoff
MAX_ATTEMPTS == 5

\* HTTP status codes generate_embedding_with_backoff retries
RetryableCodes == {429, 500, 502, 503, 504}

\* embeddings_prefix = f"{EMBED_S3_PREFIX}{doc_id}/"
embeddings_prefix(doc_id) == <<EMBED_S3_PREFIX, doc_id>>

\* manifest_key = f"{embeddings_prefix}manifest.json"
manifest_key(doc_id) ==
    [prefix |-> embeddings_prefix(doc_id), file |-> "manifest.json", idx |-> -1]

\* key = f"{embeddings_prefix}{idx:05d}.json": the file named by the index
artifact_key(doc_id, idx) ==
    [prefix |-> embeddings_prefix(doc_id), file |-> "idx.json", idx |-> idx]

\* an object of the content store: absent (get_object raises NoSuchKey),
\* present but not parseable, or present with a body
NoSuchKey == [state |-> "NoSuchKey", chunks |-> 0, embedded |-> 0, by |-> 0]
Corrupt   == [state |-> "Corrupt", chunks |-> 0, embedded |-> 0, by |-> 0]
NoText    == [exists |-> FALSE, body |-> <<>>]
TextObject(text) == [exists |-> TRUE, body |-> text]

\* dict.get(key, default)
Get(d, key, default) == IF key \in DOMAIN d THEN d[key] ELSE default

\* the completion test without "chunks > 0"
manifest_complete_no_positive(chunks_total, embedded_count) ==
    embedded_count >= chunks_total

\* the completion test without "embedded >= chunks"
manifest_complete_chunks_only(chunks_total, embedded_count) ==
    chunks_total > 0

\* the completion test of the idempotency check: embedded_count >= chunks_total > 0
manifest_complete(chunks_total, embedded_count) ==
    embedded_count >= chunks_total /\ chunks_total > 0

\* a forward that updates the input message instead of building a new one
forward_envelope_passthrough(message, chunks_created, embeddings_persisted) ==
    [k \in DOMAIN message \cup {"embeddings_s3_prefix", "chunks_created",
                                "embeddings_persisted"} |->
        IF k = "embeddings_s3_prefix" THEN embeddings_prefix(message.document_id)
        ELSE IF k = "chunks_created" THEN chunks_created
        ELSE IF k = "embeddings_persisted" THEN embeddings_persisted
        ELSE message[k]]

\* the whitelisted envelope built from the message on both paths of
\* lambda_handler
forward_envelope(message, chunks_created, embeddings_persisted) ==
    [document_id          |-> message.document_id,
     text_s3_key          |-> message.text_s3_key,
     embeddings_s3_prefix |-> embeddings_prefix(message.document_id),
     chunks_created       |-> chunks_created,
     embeddings_persisted |-> embeddings_persisted]

\* the guard with <= in place of <
ratio_below_min_inclusive(persisted, nchunks, min_ratio_pct) ==
    persisted * 100 <= min_ratio_pct * Max(1, nchunks)

\* the guard on persisted / len(chunks), without max(1, ...)
ratio_below_min_no_floor(persisted, nchunks, min_ratio_pct) ==
    persisted * 100 < min_ratio_pct * nchunks

\* the success ratio guard: success_ratio < EMBED_SUCCESS_MIN_RATIO, with
\* success_ratio = persisted / max(1, len(chunks)) and the minimum in percent
ratio_below_min(persisted, nchunks, min_ratio_pct) ==
    persisted * 100 < min_ratio_pct * Max(1, nchunks)

\* a manifest that reports every chunk as embedded
new_manifest_all_embedded(nchunks, persisted, run) ==
    [state |-> "json", chunks |-> nchunks, embedded |-> nchunks, by |-> run]

\* the manifest object written by _put_manifest (the counts the stage reads
\* back, and the run that wrote it)
new_manifest(nchunks, persisted, run) ==
    [state |-> "json", chunks |-> nchunks, embedded |-> persisted, by |-> run]

\* datetime.utcnow().isoformat(): the reading of the clock, one value here
utcnow == "utcnow"

\* the except block with "message['errors'] = [entry]" in place of append
with_error_overwrites(message, err) ==
    [k \in DOMAIN message \cup {"errors"} |->
        IF k = "errors"
        THEN <<[stage |-> "chunk-and-embed", error |-> err, timestamp |-> utcnow]>>
        ELSE message[k]]

\* message['errors'].append({...}) of the except block of lambda_handler
with_error(message, err) ==
    [k \in DOMAIN message \cup {"errors"} |->
        IF k = "errors"
        THEN Append(Get(message, "errors", <<>>), [stage |-> "chunk-and-embed", error |-> err, timestamp |-> utcnow])
        ELSE message[k]]

\* a ClientError whose response carries no HTTPStatusCode
NoStatusCode == 0

\* what one bedrock.invoke_model call can do: answer with an embedding,
\* answer without one (no 'embedding' key, or an empty list), raise a
\* ClientError with or without an HTTP status code, raise anything else
InvokeOutcomes ==
    {[kind |-> "response", embedding |-> e, code |-> 200] : e \in {"vector", "none"}}
    \cup {[kind |-> "ClientError", embedding |-> "none", code |-> c] :
             c \in {429, 503, 400, NoStatusCode}}
    \cup {[kind |-> "Exception", embedding |-> "none", code |-> NoStatusCode]}

\* no call made yet
NoOutcome == [kind |-> "none", embedding |-> "none", code |-> NoStatusCode]

\* the outcomes of bedrock.invoke_model the executor is traced with: every
\* status the retry test names, other statuses, a missing status, and an
\* exception that is not a ClientError
EmbedOutcomes ==
    {[kind |-> "response", embedding |-> e, code |-> 200] : e \in {"vector", "none"}}
    \cup {[kind |-> "ClientError", embedding |-> "none", code |-> c] :
             c \in RetryableCodes \cup {400, 403, NoStatusCode}}
    \cup {[kind |-> "Exception", embedding |-> "none", code |-> NoStatusCode]}

\* the sleep base without the cap
backoff_base_uncapped(attempt) == 2 ^ attempt

\* sleep base of attempt i: min(8, 2 ** attempt)
backoff_base(attempt) == Min(8, 2 ^ attempt)

\* one pass of the attempt loop of generate_embedding_with_backoff:
\* done / result when the function returns, else the sleep before the retry
embed_attempt(attempt, outcome, max_attempts) ==
    IF outcome.kind = "response"
    THEN [done |-> TRUE, result |-> outcome.embedding, sleep |-> 0]
    ELSE IF outcome.kind = "ClientError"
    THEN LET error_code == IF outcome.code = NoStatusCode THEN 500 ELSE outcome.code
         IN  IF error_code \in RetryableCodes /\ attempt < max_attempts - 1
             THEN [done |-> FALSE, result |-> "none", sleep |-> backoff_base(attempt)]
             ELSE [done |-> TRUE, result |-> "none", sleep |-> 0]
    ELSE IF attempt < max_attempts - 1
         THEN [done |-> FALSE, result |-> "none", sleep |-> backoff_base(attempt)]
         ELSE [done |-> TRUE, result |-> "none", sleep |-> 0]

(***************************************************************************)
(* JSON values as json.loads builds them.  A string is its sequence of     *)
(* characters; a dict is its sequence of key/value pairs in insertion      *)
(* order, keys distinct.                                                   *)
(***************************************************************************)
JNull == [t |-> "null"]
JStr(s) == [t |-> "string", s |-> s]
JNum(n) == [t |-> "number", n |-> n]
JBool(b) == [t |-> "boolean", b |-> b]
JArr(items) == [t |-> "array", items |-> items]
JObj(pairs) == [t |-> "object", pairs |-> pairs]

\* dict operations: keys(), in, []
Keys(d) == {d.pairs[i].k : i \in DOMAIN d.pairs}
Has(d, k) == k \in Keys(d)
Lookup(d, k) == (CHOOSE i \in DOMAIN d.pairs : d.pairs[i].k = k)

\* value is None
is_none(v) == v.t = "null"

\* isinstance(value, python_types[expected]): bool is a subclass of int
isinstance_of(v, expected) ==
    IF expected = "number" THEN v.t \in {"number", "boolean"} ELSE v.t = expected

\* isinstance(value, (int, float)) with bool a subclass of int
is_number_instance(v) == isinstance_of(v, "number")

\* the number a comparison sees: True is 1, False is 0
num_of(v) == IF v.t = "boolean" THEN (IF v.b THEN 1 ELSE 0) ELSE v.n

Whitespace == {" ", "\n", "\t"}
Digits == {"0", "1", "2", "3", "4", "5", "6", "7", "8", "9"}

\* not s.strip()
strip_is_empty(s) == \A i \in 1..Len(s) : s[i] \in Whitespace

\* re.match("^\d{4}-\d{2}-\d{2}$", s): $ also matches before a final newline
matches_date_pattern(s) ==
    /\ Len(s) = 10 \/ (Len(s) = 11 /\ s[11] = "\n")
    /\ \A i \in 1..10 : IF i \in {5, 8} THEN s[i] = "-" ELSE s[i] \in Digits

(***************************************************************************)
(* schema.py                                                               *)
(***************************************************************************)
\* a declared type: the list of type names ("string" alone is <<"string">>)
TypeNames(field_type) == {field_type[i] : i \in DOMAIN field_type}

ItemSchema ==
    [type |-> <<"object">>,
     required |-> <<"role", "rate", "currency">>,
     additionalProperties |-> FALSE,
     properties |->
        [role |-> [type |-> <<"string">>, minLength |-> 1, maxLength |-> 100],
         rate |-> [type |-> <<"number">>, minimum |-> 0, maximum |-> 5000],
         currency |-> [type |-> <<"string">>,
                       enum |-> {JStr(<<"G", "B", "P">>), JStr(<<"U", "S", "D">>), JStr(<<"E", "U", "R">>)}]]]

SOW_SCHEMA ==
    [type |-> <<"object">>,
     required |-> <<"client_name">>,
     additionalProperties |-> FALSE,
     properties |->
        [client_name |-> [type |-> <<"string">>, minLength |-> 1, maxLength |-> 200],
         contract_value |-> [type |-> <<"number", "null">>, minimum |-> 0,
                             maximum |-> 100000000],
         start_date |-> [type |-> <<"string", "null">>, pattern |-> "date"],
         end_date |-> [type |-> <<"string", "null">>, pattern |-> "date"],
         po_number |-> [type |-> <<"string", "null">>, maxLength |-> 100],
         ir35_status |-> [type |-> <<"string", "null">>,
                          enum |-> {JStr(<<"I", "n", "s", "i", "d", "e">>), JStr(<<"O", "u", "t", "s", "i", "d", "e">>), JStr(<<"N", "o", "t", " ", "S", "p", "e", "c", "i", "f", "i", "e", "d">>),
                                    JNull}],
         day_rates |-> [type |-> <<"array">>, items |-> ItemSchema],
         signatures_present |-> [type |-> <<"boolean">>]]]

\* the field of a SchemaValidationError: None, a name, or name[i] / name[i].sub
NoField == <<>>
FieldName(name) == <<[name |-> name, idx |-> -1]>>
\* f"{field}[{i}].{e.field}" if e.field else f"{field}[{i}]"
IndexedField(name, i, sub) ==
    IF sub # NoField /\ sub # FieldName("")
    THEN <<[name |-> name, idx |-> i]>> \o sub
    ELSE <<[name |-> name, idx |-> i]>>

\* validation returned / SchemaValidationError(code, message, field)
Valid == [ok |-> TRUE, code |-> "", field |-> NoField]
SchemaValidationError(code, field) == [ok |-> FALSE, code |-> code, field |-> field]

\* the value a field path of an error points at in the data
RECURSIVE ValueAt(_, _)
ValueAt(data, field) ==
    IF field = NoField THEN data
    ELSE LET v == IF data.t = "object" /\ field[1].name \in {data.pairs[i].k : i \in DOMAIN data.pairs}
                  THEN data.pairs[CHOOSE i \in DOMAIN data.pairs :
                                      data.pairs[i].k = field[1].name].v
                  ELSE [t |-> "null"]
             w == IF field[1].idx >= 0 /\ v.t = "array" /\ field[1].idx < Len(v.items)
                  THEN v.items[field[1].idx + 1] ELSE v
         IN  ValueAt(w, Tail(field))

\* the values that str(e) of a SchemaValidationError quotes: the messages
\* of VAL_SCHEMA_ENUM and VAL_SCHEMA_RANGE end in "got <value>", also when
\* wrapped as "In field[i]: ..."; the other messages name types, lengths,
\* patterns and field names
schema_message_values(data, code, field) ==
    IF code \in {"VAL_SCHEMA_ENUM", "VAL_SCHEMA_RANGE"} THEN <<ValueAt(data, field)>> ELSE <<>>

\* a call of logger.info, logger.warning or logger.error: the fixed text and
\* the values formatted into the line
LogLine(level, text, args) == [level |-> level, text |-> text, args |-> args]

\* what a log line names besides values of the data: a code or name, a
\* field path, a count, the keys of a dict
LogName(name) == [t |-> "name", name |-> name]
LogField(field) == [t |-> "field", field |-> field]
LogCount(n) == [t |-> "count", n |-> n]
LogKeys(keys) == [t |-> "keys", keys |-> keys]

\* list(extra_fields)[0]: the order of a set of names is not specified; pref
\* is the name that comes first when it is among them
first_of(extra_fields, pref) ==
    IF pref \in extra_fields THEN pref ELSE CHOOSE x \in extra_fields : TRUE

RECURSIVE validate_against_schema(_, _, _)
RECURSIVE first_required_error(_, _, _)
RECURSIVE first_property_error(_, _, _, _)
RECURSIVE first_item_error(_, _, _, _, _)

\* the required loop without the empty-value check
first_required_error_presence_only(data, required, i) ==
    IF i > Len(required) THEN Valid
    ELSE IF ~Has(data, required[i])
    THEN SchemaValidationError("VAL_SCHEMA_REQUIRED", FieldName(required[i]))
    ELSE first_required_error(data, required, i + 1)

\* the loop over schema["required"], from the i-th name on
first_required_error(data, required, i) ==
    IF i > Len(required) THEN Valid
    ELSE LET field == required[i]
         IN  IF ~Has(data, field)
             THEN SchemaValidationError("VAL_SCHEMA_REQUIRED", FieldName(field))
             ELSE LET v == data.pairs[Lookup(data, field)].v
                  IN  IF is_none(v) \/ (v.t = "string" /\ strip_is_empty(v.s))
                      THEN SchemaValidationError("VAL_SCHEMA_EMPTY", FieldName(field))
                      ELSE first_required_error(data, required, i + 1)

\* the null branch of the property loop: TRUE when the loop continues
null_allowed(field, field_type, required) ==
    \/ "null" \in TypeNames(field_type)
    \/ field \notin {required[i] : i \in DOMAIN required}

\* the type check of one value
valid_type(value, field_type) ==
    \E expected \in TypeNames(field_type) \ {"null"} :
        /\ expected \in {"string", "number", "boolean", "array", "object"}
        /\ isinstance_of(value, expected)

\* the string validations of one value
string_error(field, value, field_schema) ==
    IF "minLength" \in DOMAIN field_schema /\ Len(value.s) < field_schema.minLength
    THEN SchemaValidationError("VAL_SCHEMA_LENGTH", FieldName(field))
    ELSE IF "maxLength" \in DOMAIN field_schema /\ Len(value.s) > field_schema.maxLength
    THEN SchemaValidationError("VAL_SCHEMA_LENGTH", FieldName(field))
    ELSE IF "pattern" \in DOMAIN field_schema /\ ~matches_date_pattern(value.s)
    THEN SchemaValidationError("VAL_SCHEMA_FORMAT", FieldName(field))
    ELSE IF "enum" \in DOMAIN field_schema /\ value \notin field_schema.enum
    THEN SchemaValidationError("VAL_SCHEMA_ENUM", FieldName(field))
    ELSE Valid

\* the number validations of one value
number_error(field, value, field_schema) ==
    IF "minimum" \in DOMAIN field_schema /\ num_of(value) < field_schema.minimum
    THEN SchemaValidationError("VAL_SCHEMA_RANGE", FieldName(field))
    ELSE IF "maximum" \in DOMAIN field_schema /\ num_of(value) > field_schema.maximum
    THEN SchemaValidationError("VAL_SCHEMA_RANGE", FieldName(field))
    ELSE Valid

\* the item loop reporting the position of the item counted from 1
first_item_error_one_based(field, items, item_schema, i, pref) ==
    IF i >= Len(items) THEN Valid
    ELSE LET e == validate_against_schema(items[i + 1], item_schema, pref)
         IN  IF ~e.ok
             THEN SchemaValidationError(e.code, IndexedField(field, i + 1, e.field))
             ELSE first_item_error(field, items, item_schema, i + 1, pref)

\* the loop over the items of an array value, from the i-th item on (0-based)
first_item_error(field, items, item_schema, i, pref) ==
    IF i >= Len(items) THEN Valid
    ELSE LET e == validate_against_schema(items[i + 1], item_schema, pref)
         IN  IF ~e.ok
             THEN SchemaValidationError(e.code, IndexedField(field, i, e.field))
             ELSE first_item_error(field, items, item_schema, i + 1, pref)

\* the body of the property loop for one declared field
value_error(field, value, field_schema, required, pref) ==
    IF is_none(value)
    THEN IF null_allowed(field, field_schema.type, required)
         THEN Valid
         ELSE SchemaValidationError("VAL_SCHEMA_NULL", FieldName(field))
    ELSE IF ~valid_type(value, field_schema.type)
    THEN SchemaValidationError("VAL_SCHEMA_TYPE", FieldName(field))
    ELSE LET se == IF value.t = "string" THEN string_error(field, value, field_schema)
                   ELSE Valid
             ne == IF is_number_instance(value)
                   THEN number_error(field, value, field_schema) ELSE Valid
         IN  IF ~se.ok THEN se
             ELSE IF ~ne.ok THEN ne
             ELSE IF value.t = "array" /\ "items" \in DOMAIN field_schema
             THEN first_item_error(field, value.items, field_schema.items, 0, pref)
             ELSE Valid

\* the loop over data.items(), from the i-th pair on
first_property_error(data, schema, i, pref) ==
    IF i > Len(data.pairs) THEN Valid
    ELSE LET field == data.pairs[i].k
             value == data.pairs[i].v
         IN  IF field \notin DOMAIN schema.properties
             THEN first_property_error(data, schema, i + 1, pref)
             ELSE LET e == value_error(field, value, schema.properties[field],
                                       schema.required, pref)
                  IN  IF ~e.ok THEN e
                      ELSE first_property_error(data, schema, i + 1, pref)

\* the validator without the additionalProperties check
validate_against_schema_open(data, schema, pref) ==
    IF "object" \in TypeNames(schema.type) /\ data.t # "object"
    THEN SchemaValidationError("VAL_SCHEMA_TYPE", NoField)
    ELSE LET re == first_required_error(data, schema.required, 1)
         IN  IF ~re.ok THEN re ELSE first_property_error(data, schema, 1, pref)

validate_against_schema(data, schema, pref) ==
    IF "object" \in TypeNames(schema.type) /\ data.t # "object"
    THEN SchemaValidationError("VAL_SCHEMA_TYPE", NoField)
    ELSE LET re == first_required_error(data, schema.required, 1)
             extra_fields == Keys(data) \ DOMAIN schema.properties
         IN  IF ~re.ok THEN re
             ELSE IF schema.additionalProperties = FALSE /\ extra_fields # {}
             THEN SchemaValidationError("VAL_SCHEMA_EXTRA",
                                        FieldName(first_of(extra_fields, pref)))
             ELSE first_property_error(data, schema, 1, pref)

\* returns the data unchanged, or raises
validate_sow_data_strict(data, pref) ==
    IF data.t # "object"
    THEN SchemaValidationError("VAL_SCHEMA_TYPE", NoField)
    ELSE validate_against_schema(data, SOW_SCHEMA, pref)

(***************************************************************************)
(* extract_structured_data/handler.py: extract_with_gemini                 *)
(***************************************************************************)
RETRY_DELAYS == <<1, 2, 4>>

\* confidence score 0.95, in percent
CONFIDENCE == 95

\* the exception an attempt ends the call with, if any
NoError == [kind |-> "none", code |-> "", field |-> NoField]

\* one pass of the attempt loop with every failure sleeping one second
extract_attempt_fixed_delay(attempt, outcome, pref) ==
    LET r == IF outcome.kind = "json"
             THEN validate_sow_data_strict(outcome.payload, pref) ELSE Valid
    IN  IF outcome.kind = "json" /\ r.ok
        THEN [done |-> TRUE, error |-> NoError, data |-> outcome.payload, sleep |-> 0]
        ELSE IF outcome.kind = "json"
        THEN [done |-> TRUE, data |-> JNull, sleep |-> 0,
              error |-> [kind |-> "SchemaValidationError", code |-> r.code,
                         field |-> r.field]]
        ELSE IF attempt >= Len(RETRY_DELAYS)
        THEN [done |-> TRUE, data |-> JNull, sleep |-> 0,
              error |-> [kind |-> "Exception", code |-> outcome.kind, field |-> NoField]]
        ELSE [done |-> FALSE, error |-> NoError, data |-> JNull, sleep |-> 1]

\* one pass of the attempt loop with a schema violation handled like any
\* other exception
extract_attempt_retry_schema(attempt, outcome, pref) ==
    LET r == IF outcome.kind = "json"
             THEN validate_sow_data_strict(outcome.payload, pref) ELSE Valid
    IN  IF outcome.kind = "json" /\ r.ok
        THEN [done |-> TRUE, error |-> NoError, data |-> outcome.payload, sleep |-> 0]
        ELSE IF attempt >= Len(RETRY_DELAYS)
        THEN [done |-> TRUE, data |-> JNull, sleep |-> 0,
              error |-> [kind |-> "Exception", code |-> outcome.kind, field |-> NoField]]
        ELSE [done |-> FALSE, error |-> NoError, data |-> JNull,
              sleep |-> RETRY_DELAYS[attempt + 1]]

\* one pass of the attempt loop of extract_with_gemini.  outcome is what the
\* request and the parsing of its answer come to: "Exception" (the request,
\* raise_for_status, an 'error' answer, no candidates), "JSONDecodeError"
\* (json.loads fails) or "json" with the parsed payload.
extract_attempt(attempt, outcome, pref) ==
    LET r == IF outcome.kind = "json"
             THEN validate_sow_data_strict(outcome.payload, pref) ELSE Valid
    IN  IF outcome.kind = "json" /\ r.ok
        THEN [done |-> TRUE, error |-> NoError, data |-> outcome.payload, sleep |-> 0]
        ELSE IF outcome.kind = "json"
        THEN [done |-> TRUE, data |-> JNull, sleep |-> 0,
              error |-> [kind |-> "SchemaValidationError", code |-> r.code,
                         field |-> r.field]]
        ELSE IF attempt >= Len(RETRY_DELAYS)
        THEN [done |-> TRUE, data |-> JNull, sleep |-> 0,
              error |-> [kind |-> "Exception", code |-> outcome.kind, field |-> NoField]]
        ELSE [done |-> FALSE, error |-> NoError, data |-> JNull,
              sleep |-> RETRY_DELAYS[attempt + 1]]

\* message['errors'].append({...}) of the except block of the stage
ex_with_error(message, err) ==
    [k \in DOMAIN message \cup {"errors"} |->
        IF k = "errors"
        THEN Append(Get(message, "errors", <<>>),
                    [stage |-> "extract-structured-data", error |-> err,
                     timestamp |-> utcnow])
        ELSE message[k]]

\* message['structured_data'] = ...; message['extraction_confidence'] = ...
ex_with_results(message, structured_data, confidence) ==
    [k \in DOMAIN message \cup {"structured_data", "extraction_confidence"} |->
        IF k = "structured_data" THEN structured_data
        ELSE IF k = "extraction_confidence" THEN confidence
        ELSE message[k]]

(***************************************************************************)
(* validate_data/validation_rules.py                                       *)
(***************************************************************************)
MAX_DAY_RATE == 1200
MIN_DAY_RATE == 200
MAX_CONTRACT_VALUE == 10000000
MAX_CONTRACT_YEARS == 3

\* bool(value): None, "", 0, False, [] and {} are falsy
truthy(v) ==
    IF v.t = "null" THEN FALSE
    ELSE IF v.t = "string" THEN Len(v.s) > 0
    ELSE IF v.t = "number" THEN v.n # 0
    ELSE IF v.t = "boolean" THEN v.b
    ELSE IF v.t = "array" THEN Len(v.items) > 0
    ELSE Len(v.pairs) > 0

\* data.get(key) and data.get(key, default)
dict_get(d, k) == IF Has(d, k) THEN d.pairs[Lookup(d, k)].v ELSE JNull
dict_get_default(d, k, default) == IF Has(d, k) THEN d.pairs[Lookup(d, k)].v ELSE default

\* the value of a decimal digit, and of the digits s[a..b]
DigitVal(c) == CHOOSE n \in 0..9 : <<"0", "1", "2", "3", "4", "5", "6", "7", "8", "9">>[n + 1] = c
RECURSIVE DigitsVal(_, _, _)
DigitsVal(s, a, b) == IF a > b THEN 0 ELSE 10 * DigitsVal(s, a, b - 1) + DigitVal(s[b])

IsLeap(y) == (y % 4 = 0 /\ y % 100 # 0) \/ y % 400 = 0
DaysInMonth(y, m) ==
    IF m = 2 THEN (IF IsLeap(y) THEN 29 ELSE 28)
    ELSE IF m \in {4, 6, 9, 11} THEN 30 ELSE 31
RECURSIVE DaysBeforeMonth(_, _)
DaysBeforeMonth(y, m) == IF m = 1 THEN 0 ELSE DaysBeforeMonth(y, m - 1) + DaysInMonth(y, m - 1)

\* date.toordinal()
Ordinal(y, m, d) ==
    365 * (y - 1) + ((y - 1) \div 4) - ((y - 1) \div 100) + ((y - 1) \div 400)
        + DaysBeforeMonth(y, m) + d

\* datetime.fromisoformat(value).date(): the ordinal of the date for text of
\* the form YYYY-MM-DD, TypeError for a value that is not str, and ValueError
\* for the other texts tried here (the empty text, a word, a day that the
\* month does not have)
fromisoformat(v) ==
    IF v.t # "string" THEN [exc |-> "TypeError", ord |-> 0]
    ELSE IF ~(/\ Len(v.s) = 10
              /\ \A i \in 1..10 : IF i \in {5, 8} THEN v.s[i] = "-" ELSE v.s[i] \in Digits)
    THEN [exc |-> "ValueError", ord |-> 0]
    ELSE LET y == DigitsVal(v.s, 1, 4)
             m == DigitsVal(v.s, 6, 7)
             d == DigitsVal(v.s, 9, 10)
         IN  IF y >= 1 /\ m \in 1..12 /\ d >= 1 /\ d <= DaysInMonth(y, m)
             THEN [exc |-> "none", ord |-> Ordinal(y, m, d)]
             ELSE [exc |-> "ValueError", ord |-> 0]

\* what rule.validate(data) comes to: None, a ValidationViolation, or an
\* exception leaving the rule
NoViolation ==
    [raised |-> FALSE, hit |-> FALSE,
     v |-> [code |-> "", message |-> "", args |-> <<>>, field |-> NoField, severity |-> ""]]
ValidationViolation(code, message, args, field, severity) ==
    [raised |-> FALSE, hit |-> TRUE,
     v |-> [code |-> code, message |-> message, args |-> args, field |-> field,
            severity |-> severity]]
RuleRaises(exc) ==
    [raised |-> TRUE, hit |-> FALSE,
     v |-> [code |-> exc, message |-> "", args |-> <<>>, field |-> NoField, severity |-> ""]]

\* a value that <=, < and > compare with an int
is_comparable(v) == v.t \in {"number", "boolean"}

ClientNameRequiredRule(rule, data) ==
    LET client_name == dict_get(data, "client_name")
    IN  IF ~truthy(client_name)
           \/ (client_name.t = "string" /\ strip_is_empty(client_name.s))
        THEN ValidationViolation(rule.code, "Client name is required", <<>>,
                                 FieldName(rule.field), rule.severity)
        ELSE NoViolation

DateRangeRule(rule, data) ==
    LET start_date == dict_get(data, "start_date")
        end_date == dict_get(data, "end_date")
        start == fromisoformat(start_date)
        end == fromisoformat(end_date)
    IN  IF ~truthy(start_date) \/ ~truthy(end_date) THEN NoViolation
        ELSE IF start.exc = "TypeError" THEN RuleRaises("TypeError")
        ELSE IF start.exc = "ValueError" THEN NoViolation
        ELSE IF end.exc = "TypeError" THEN RuleRaises("TypeError")
        ELSE IF end.exc = "ValueError" THEN NoViolation
        ELSE IF end.ord <= start.ord
        THEN ValidationViolation(rule.code, "End date must be after start date",
                                 <<start_date, end_date>>, FieldName(rule.field),
                                 rule.severity)
        ELSE NoViolation

DateMissingRule(rule, data) ==
    IF ~truthy(dict_get(data, rule.field))
    THEN ValidationViolation(rule.code, "is required", <<>>,
                             FieldName(rule.field), rule.severity)
    ELSE NoViolation

DateFormatRule(rule, data) ==
    LET value == dict_get(data, rule.field)
    IN  IF ~truthy(value) THEN NoViolation
        ELSE IF fromisoformat(value).exc = "TypeError" THEN RuleRaises("TypeError")
        ELSE IF fromisoformat(value).exc = "ValueError"
        THEN ValidationViolation(rule.code, "Invalid date format", <<value>>,
                                 FieldName(rule.field), rule.severity)
        ELSE NoViolation

DatePastRule(rule, data, today) ==
    LET end_date == dict_get(data, "end_date")
        end == fromisoformat(end_date)
    IN  IF ~truthy(end_date) THEN NoViolation
        ELSE IF end.exc = "TypeError" THEN RuleRaises("TypeError")
        ELSE IF end.exc = "ValueError" THEN NoViolation
        ELSE IF end.ord < today
        THEN ValidationViolation(rule.code, "Contract ended days ago",
                                 <<JNum(today - end.ord), end_date>>,
                                 FieldName(rule.field), rule.severity)
        ELSE NoViolation

DateLongDurationRule(rule, data) ==
    LET start_date == dict_get(data, "start_date")
        end_date == dict_get(data, "end_date")
        start == fromisoformat(start_date)
        end == fromisoformat(end_date)
    IN  IF ~truthy(start_date) \/ ~truthy(end_date) THEN NoViolation
        ELSE IF start.exc = "TypeError" THEN RuleRaises("TypeError")
        ELSE IF start.exc = "ValueError" THEN NoViolation
        ELSE IF end.exc = "TypeError" THEN RuleRaises("TypeError")
        ELSE IF end.exc = "ValueError" THEN NoViolation
        ELSE IF end.ord - start.ord > 365 * MAX_CONTRACT_YEARS
        THEN ValidationViolation(rule.code, "Contract duration is very long",
                                 <<JNum(end.ord - start.ord)>>, FieldName(rule.field),
                                 rule.severity)
        ELSE NoViolation

ContractValueMissingRule(rule, data) ==
    IF dict_get(data, "contract_value").t = "null"
    THEN ValidationViolation(rule.code, "Contract value not specified", <<>>,
                             FieldName(rule.field), rule.severity)
    ELSE NoViolation

ContractValueInvalidRule(rule, data) ==
    LET value == dict_get(data, "contract_value")
    IN  IF value.t = "null" THEN NoViolation
        ELSE IF ~is_comparable(value) THEN RuleRaises("TypeError")
        ELSE IF num_of(value) <= 0
        THEN ValidationViolation(rule.code, "Contract value must be positive", <<value>>,
                                 FieldName(rule.field), rule.severity)
        ELSE NoViolation

ContractValueHighRule(rule, data) ==
    LET value == dict_get(data, "contract_value")
    IN  IF value.t = "null" THEN NoViolation
        ELSE IF ~is_comparable(value) THEN RuleRaises("TypeError")
        ELSE IF num_of(value) > MAX_CONTRACT_VALUE
        THEN ValidationViolation(rule.code, "Very large contract value", <<value>>,
                                 FieldName(rule.field), rule.severity)
        ELSE NoViolation

\* enumerate(day_rates): the items of a list, the characters of a str, the
\* keys of a dict; anything else is not iterable
iterates(v) == v.t \in {"array", "string", "object"}
iter_items(v) ==
    IF v.t = "array" THEN v.items
    ELSE IF v.t = "string" THEN [i \in DOMAIN v.s |-> JStr(<<v.s[i]>>)]
    ELSE [i \in DOMAIN v.pairs |-> JStr(<<v.pairs[i].k>>)]

\* f"day_rates[{idx}].rate"
RateField(idx) == <<[name |-> "day_rates", idx |-> idx]>> \o FieldName("rate")

\* the loop of a day rate rule from item idx on: which is "invalid", "high"
\* or "low"
RECURSIVE day_rate_loop(_, _, _, _)
day_rate_loop(rule, which, items, idx) ==
    IF idx >= Len(items) THEN NoViolation
    ELSE LET rate_info == items[idx + 1]
             rate == dict_get_default(rate_info, "rate", JNum(0))
         IN  IF rate_info.t # "object" THEN RuleRaises("AttributeError")
             ELSE IF ~is_comparable(rate) THEN RuleRaises("TypeError")
             ELSE IF \/ which = "invalid" /\ num_of(rate) <= 0
                     \/ which = "high" /\ num_of(rate) > MAX_DAY_RATE
                     \/ which = "low" /\ 0 < num_of(rate) /\ num_of(rate) < MIN_DAY_RATE
             THEN ValidationViolation(rule.code, which, <<JNum(idx), rate>>,
                                      RateField(idx), rule.severity)
             ELSE day_rate_loop(rule, which, items, idx + 1)

DayRateRule(rule, which, data) ==
    LET day_rates == dict_get_default(data, "day_rates", JArr(<<>>))
    IN  IF ~iterates(day_rates) THEN RuleRaises("TypeError")
        ELSE day_rate_loop(rule, which, iter_items(day_rates), 0)

\* the rule registry, in table order
VALIDATION_RULES ==
    <<[rule |-> "ClientNameRequiredRule", code |-> "VAL_CLIENT_MISSING",
       field |-> "client_name", severity |-> "error"],
      [rule |-> "DateMissingRule", code |-> "VAL_DATE_MISSING",
       field |-> "start_date", severity |-> "error"],
      [rule |-> "DateMissingRule", code |-> "VAL_DATE_MISSING",
       field |-> "end_date", severity |-> "error"],
      [rule |-> "DateFormatRule", code |-> "VAL_DATE_FORMAT",
       field |-> "start_date", severity |-> "error"],
      [rule |-> "DateFormatRule", code |-> "VAL_DATE_FORMAT",
       field |-> "end_date", severity |-> "error"],
      [rule |-> "DateRangeRule", code |-> "VAL_DATE_RANGE",
       field |-> "start_date,end_date", severity |-> "error"],
      [rule |-> "DatePastRule", code |-> "VAL_DATE_PAST",
       field |-> "end_date", severity |-> "warning"],
      [rule |-> "DateLongDurationRule", code |-> "VAL_DATE_LONG",
       field |-> "start_date,end_date", severity |-> "warning"],
      [rule |-> "ContractValueMissingRule", code |-> "VAL_VALUE_MISSING",
       field |-> "contract_value", severity |-> "warning"],
      [rule |-> "ContractValueInvalidRule", code |-> "VAL_VALUE_INVALID",
       field |-> "contract_value", severity |-> "error"],
      [rule |-> "ContractValueHighRule", code |-> "VAL_VALUE_HIGH",
       field |-> "contract_value", severity |-> "warning"],
      [rule |-> "DayRateInvalidRule", code |-> "VAL_RATE_INVALID",
       field |-> "day_rates", severity |-> "error"],
      [rule |-> "DayRateHighRule", code |-> "VAL_RATE_HIGH",
       field |-> "day_rates", severity |-> "warning"],
      [rule |-> "DayRateLowRule", code |-> "VAL_RATE_LOW",
       field |-> "day_rates", severity |-> "warning"]>>

\* rule.validate(data)
rule_validate(rule, data, today) ==
    IF rule.rule = "ClientNameRequiredRule" THEN ClientNameRequiredRule(rule, data)
    ELSE IF rule.rule = "DateMissingRule" THEN DateMissingRule(rule, data)
    ELSE IF rule.rule = "DateFormatRule" THEN DateFormatRule(rule, data)
    ELSE IF rule.rule = "DateRangeRule" THEN DateRangeRule(rule, data)
    ELSE IF rule.rule = "DatePastRule" THEN DatePastRule(rule, data, today)
    ELSE IF rule.rule = "DateLongDurationRule" THEN DateLongDurationRule(rule, data)
    ELSE IF rule.rule = "ContractValueMissingRule" THEN ContractValueMissingRule(rule, data)
    ELSE IF rule.rule = "ContractValueInvalidRule" THEN ContractValueInvalidRule(rule, data)
    ELSE IF rule.rule = "ContractValueHighRule" THEN ContractValueHighRule(rule, data)
    ELSE IF rule.rule = "DayRateInvalidRule" THEN DayRateRule(rule, "invalid", data)
    ELSE IF rule.rule = "DayRateHighRule" THEN DayRateRule(rule, "high", data)
    ELSE DayRateRule(rule, "low", data)

\* the body of the loop with every violation counted as an error
place_violation_all_errors(lists, violation) ==
    [lists EXCEPT !.errors = Append(lists.errors, violation)]

\* errors.append(...) or warnings.append(...) by severity
place_violation(lists, violation) ==
    IF violation.severity = "error"
    THEN [lists EXCEPT !.errors = Append(lists.errors, violation)]
    ELSE [lists EXCEPT !.warnings = Append(lists.warnings, violation)]

(***************************************************************************)
(* save_metadata/handler.py: the version string and the conditions of the  *)
(* two writes                                                              *)
(***************************************************************************)
DigitChar(n) == <<"0", "1", "2", "3", "4", "5", "6", "7", "8", "9">>[n + 1]

\* f"{int(datetime.utcnow().timestamp())}": decimal digits, no padding
RECURSIVE str_int(_)
str_int(n) == IF n < 10 THEN <<DigitChar(n)>> ELSE Append(str_int(n \div 10), DigitChar(n % 10))

\* the order of DynamoDB on values of type S: byte by byte, a proper prefix
\* first
RECURSIVE str_less(_, _)
str_less(a, b) ==
    IF b = <<>> THEN FALSE
    ELSE IF a = <<>> THEN TRUE
    ELSE IF a[1] = b[1] THEN str_less(Tail(a), Tail(b))
    ELSE DigitVal(a[1]) < DigitVal(b[1])

\* an item without the attribute latest_version
NoLatest == <<>>

\* an update_item that sets the pointer whatever it holds
latest_condition_unconditional(latest_version, v) == TRUE

\* ConditionExpression='attribute_not_exists(latest_version) OR
\* latest_version < :v'
latest_condition(latest_version, v) ==
    latest_version = NoLatest \/ str_less(latest_version, v)

\* a put_item that reports every version as existing and writes nothing
version_condition_never(stored, version) == FALSE

\* a put_item without its condition
version_condition_none(stored, version) == TRUE

\* ConditionExpression="attribute_not_exists(PK) AND attribute_not_exists(SK)"
\* for the item VERSION#<version> of the document; stored maps the versions
\* of the document that have an item to that item
version_condition(stored, version) == version \notin DOMAIN stored

\* step 3: the item built from the message (the attributes that come from
\* the message; created_at and the index keys are left out)
version_item(message, version) ==
    [PK |-> message.document_id, SK |-> version,
     embeddings_prefix |-> Get(message, "embeddings_s3_prefix", ""),
     validation_passed |-> Get(message, "validation_passed", FALSE)]

(***************************************************************************)
(* State                                                                   *)
(***************************************************************************)
VARIABLES
    ct,      \* one call of chunk_text: its arguments, position and locals
    config,  \* CHUNK_SIZE, CHUNK_OVERLAP, EMBED_SUCCESS_MIN_RATIO (percent)
    queue,   \* the messages the transport delivers to chunk_and_embed
    s3,      \* content store: source texts, manifests, chunk artifacts
    sqs,     \* messages sent to NEXT_QUEUE_URL, each with the run that sent it
    inv,     \* per invocation of lambda_handler: position and locals
    runs,    \* number of deliveries so far
    ge,      \* one call of generate_embedding_with_backoff: position and locals
    sv,      \* one call of validate_sow_data_strict: argument and outcome
    ex,      \* extract_structured_data: one record of one invocation
    vr,      \* one call of validate_structured_data: position and locals
    vd,      \* validate_data: one record of one invocation
    sm,      \* save_metadata: the table and the invocations writing to it
    et,      \* extract_text: one record of one invocation
    bt       \* one batch of records and the invocations it is delivered to

vars == <<ct, config, queue, s3, sqs, inv, runs, ge, sv, ex, vr, vd, sm, et, bt>>

stageVars == <<config, queue, s3, sqs, inv, runs>>

\* the calls traced on their own, besides chunk_text
fnVars == <<ge, sv, ex, vr, vd, sm, et, bt>>

\* the stages after extraction
restVars == <<vd, sm, et, bt>>

(***************************************************************************)
(* chunk_and_embed lambda_handler                                          *)
(***************************************************************************)
\* bounds of the stage specification
StageTextLen == 2
StageChunkSize == 2
MaxRuns == 3

DocIds == {"d1"}
TextKeys == {"t1"}
\* invocation slots: one (deliveries follow each other), or two (a message
\* redelivered while the earlier invocation is still running)
SeqInvs == {1}
ConcInvs == {1, 2}

\* EMBED_SUCCESS_MIN_RATIO in percent: the default 0.95, and 0.5
MinRatios == {95, 50}

\* manifests found in the store before the first delivery: none, an
\* unparseable object, and objects left by earlier deployments
LegacyManifests ==
    {NoSuchKey, Corrupt,
     [state |-> "json", chunks |-> 2, embedded |-> 2, by |-> 0],
     [state |-> "json", chunks |-> 2, embedded |-> 1, by |-> 0],
     [state |-> "json", chunks |-> 0, embedded |-> 0, by |-> 0]}

emptyStore ==
    [texts     |-> [b \in Buckets |-> [k \in TextKeys |-> NoText]],
     manifest  |-> [b \in Buckets |-> [d \in DocIds |-> NoSuchKey]],
     artifacts |-> [b \in Buckets |-> [d \in DocIds |-> {}]]]

\* what the handler reads from the content store: manifests and source texts
world_of(store) == [manifest |-> store.manifest, texts |-> store.texts]

\* no call of chunk_text is traced by the stage specification
ctIdle == [text |-> <<>>, chunk_size |-> 1, overlap |-> 0, pc |-> "unused",
           st |-> chunk_start, iters |-> 0]

\* no call of generate_embedding_with_backoff is traced
geIdle == [pc |-> "unused", max_attempts |-> MAX_ATTEMPTS, attempt |-> 0, calls |-> 0,
           sleeps |-> <<>>, retried |-> {}, last |-> NoOutcome, result |-> "none"]

\* no call of validate_sow_data_strict is traced
svIdle == [pc |-> "unused", data |-> JNull, pref |-> "", result |-> Valid,
           returned |-> JNull]

\* no record is processed by extract_structured_data
exIdle ==
    [pc |-> "unused", message |-> [document_id |-> "d1"], attempt |-> 0, calls |-> 0,
     sleeps |-> <<>>, failures |-> <<>>, last |-> [kind |-> "none", payload |-> JNull],
     error |-> NoError,
     structured_data |-> JNull, sent |-> <<>>, log |-> <<>>]

\* no call of validate_structured_data is traced
vrIdle ==
    [pc |-> "unused", data |-> JObj(<<>>), today |-> 0, idx |-> 0, evaluated |-> <<>>,
     found |-> <<>>, lists |-> [errors |-> <<>>, warnings |-> <<>>],
     validation_passed |-> FALSE, raised |-> "none"]

\* no record is processed by validate_data
vdIdle ==
    [pc |-> "unused", message |-> JObj(<<>>), NEXT_QUEUE_URL |-> "", today |-> 0,
     all_errors |-> <<>>, all_warnings |-> <<>>, validation_passed |-> FALSE,
     log |-> <<>>, sent |-> <<>>, appended |-> <<>>, raised |-> "none", statusCode |-> 0]

\* no invocation of save_metadata runs and the table is empty
\* bounds of the save_metadata specification: invocations, clock readings
MaxSaves == 2
MaxClock == 1

\* one invocation of save_metadata for one record
smInvIdle ==
    [pc |-> "unused", message |-> [document_id |-> "d1"], version |-> NoLatest,
     created |-> FALSE, latest |-> "none", executed |-> FALSE, raised |-> "none",
     errors |-> <<>>]

\* the table (the stored VERSION# items and the attribute latest_version of
\* the LATEST item of the document), the queue url, the messages sent, and
\* the invocations
smIdle ==
    [stored |-> << >>, latest_version |-> NoLatest, NEXT_QUEUE_URL |-> "", sent |-> <<>>,
     inv |-> [i \in 1..MaxSaves |-> smInvIdle]]

\* extract_text before a record is delivered
etIdle ==
    [pc |-> "unused", message |-> [document_id |-> "d1"], NEXT_QUEUE_URL |-> "",
     pages |-> <<>>, wrote |-> <<>>, sent |-> <<>>, raised |-> "none"]

\* no batch delivered: the stage, event['Records'], the number of the
\* delivery, the position of the loop, the records entered and the records
\* ended so far
btIdle ==
    [pc |-> "unused", stage |-> "none", records |-> <<>>, k |-> 0, delivery |-> 0,
     processed |-> <<>>, ended |-> <<>>, raised |-> "none"]

lastIdle == et = etIdle /\ bt = btIdle

restIdle == vd = vdIdle /\ sm = smIdle /\ lastIdle

\* the calls not traced by a specification
fnIdle == ge = geIdle /\ sv = svIdle /\ ex = exIdle /\ vr = vrIdle /\ restIdle

\* locals of an invocation that has not been delivered a message
idleInv ==
    [pc |-> "idle", run |-> 0, message |-> [document_id |-> "d1"], path |-> "none",
     seen |-> "none", world |-> world_of(emptyStore), chunks_total |-> 0, embedded_count |-> 0,
     fetched |-> FALSE, chunks |-> <<>>, idx |-> 0, persisted |-> 0,
     attempt |-> 0, entered |-> 0, invoked |-> FALSE, wrote |-> <<>>]

\* bucket = message.get('s3_bucket', BUCKET_NAME)
bucket_of(message) == Get(message, "s3_bucket", BUCKET_NAME)

baseMessage == [document_id |-> "d1", text_s3_key |-> "t1"]

upstreamMessage ==
    [document_id |-> "d1", text_s3_key |-> "t1", s3_bucket |-> "b1",
     client_name |-> "Acme Corp"]

InitStage ==
    /\ config \in [CHUNK_SIZE : 1..StageChunkSize, CHUNK_OVERLAP : 0..StageChunkSize,
                   EMBED_SUCCESS_MIN_RATIO : MinRatios]
    /\ queue = {baseMessage, upstreamMessage}
    /\ \E text \in TextsUpTo({"a", " "}, StageTextLen), m \in LegacyManifests :
          s3 = [emptyStore EXCEPT !.texts["b1"]["t1"] = TextObject(text),
                                  !.manifest["b1"]["d1"] = m]
    /\ sqs = {}
    /\ inv = [i \in SeqInvs |-> idleInv]
    /\ runs = 0

\* after the loop with the manifest write left out
after_loop_no_manifest(l) ==
    IF ratio_below_min(l.persisted, Len(l.chunks), config.EMBED_SUCCESS_MIN_RATIO)
    THEN [l EXCEPT !.pc = "failed", !.message = with_error(l.message, "RuntimeError")]
    ELSE [l EXCEPT !.pc = "forward"]

\* position after the for loop over chunks: the success ratio guard
after_loop(l) ==
    IF ratio_below_min(l.persisted, Len(l.chunks), config.EMBED_SUCCESS_MIN_RATIO)
    THEN [l EXCEPT !.pc = "failed", !.message = with_error(l.message, "RuntimeError")]
    ELSE [l EXCEPT !.pc = "manifest"]

\* the for loop moves on from chunk idx: the next chunk, or the guard
next_chunk(l) ==
    IF l.idx + 1 < Len(l.chunks)
    THEN [l EXCEPT !.pc = "embed", !.idx = l.idx + 1, !.attempt = 0]
    ELSE after_loop([l EXCEPT !.idx = l.idx + 1])

\* a failed chunk that aborts the run in place of "continue"
chunk_failed_raises(l) ==
    [l EXCEPT !.pc = "failed", !.message = with_error(l.message, "EmbeddingError")]

\* "if not embedding: continue": the chunk is skipped, nothing is written
chunk_failed(l) == next_chunk(l)

\* the record kept of a message sent to NEXT_QUEUE_URL: the body, the run
\* that sent it and the path it took
sent_entry(l, path, body) == [run |-> l.run, path |-> path, body |-> body]

\* the except block: record the error on the message and re-raise
fail(l, err) == [l EXCEPT !.pc = "failed", !.message = with_error(l.message, err)]

\* the body of the loop is entered for a record: json.loads, then the
\* required fields message['document_id'] and message['text_s3_key']
start_record(m, run) ==
    LET l == [idleInv EXCEPT !.run = run, !.message = m]
    IN  IF {"document_id", "text_s3_key"} \subseteq DOMAIN m
        THEN [l EXCEPT !.pc = "check"]
        ELSE fail(l, "KeyError")

\* the transport delivers a message: json.loads, the required fields
Deliver(i, m) ==
    /\ inv[i].pc \in {"idle", "done", "failed", "crashed"}
    /\ runs < MaxRuns
    /\ runs' = runs + 1
    /\ inv' = [inv EXCEPT ![i] = start_record(m, runs + 1)]
    /\ UNCHANGED <<ct, fnVars, config, queue, s3, sqs>>

\* the idempotency check: s3.get_object of the manifest and its outcome
CheckManifest(i, readFails) ==
    LET l   == inv[i]
        obj == s3.manifest[bucket_of(l.message)][l.message.document_id]
    IN  /\ l.pc = "check"
        /\ inv' = [inv EXCEPT ![i] =
              IF readFails
              THEN [l EXCEPT !.pc = "download", !.seen = "ClientError",
                             !.world = world_of(s3)]
              ELSE IF obj.state # "json"
              THEN [l EXCEPT !.pc = "download", !.seen = obj.state,
                             !.world = world_of(s3)]
              ELSE IF manifest_complete(obj.chunks, obj.embedded)
              THEN [l EXCEPT !.pc = "skip", !.path = "skip", !.seen = "json",
                             !.world = world_of(s3),
                             !.chunks_total = obj.chunks,
                             !.embedded_count = obj.embedded]
              ELSE [l EXCEPT !.pc = "download", !.seen = "json",
                             !.world = world_of(s3),
                             !.chunks_total = obj.chunks,
                             !.embedded_count = obj.embedded]]
        /\ UNCHANGED <<ct, fnVars, config, queue, s3, sqs, runs>>

\* complete manifest: forward the stored counts and go to the next record.
\* The send stands inside the try of the manifest check: when it raises,
\* "except ClientError" / "except Exception" log "manifest check failed
\* (continuing)" and the handler goes on to the download.
SkipForward(i, sendFails) ==
    LET l == inv[i]
    IN  /\ l.pc = "skip"
        /\ IF sendFails
           THEN /\ inv' = [inv EXCEPT ![i] =
                            [l EXCEPT !.pc = "download", !.path = "none"]]
                /\ sqs' = sqs
           ELSE /\ inv' = [inv EXCEPT ![i].pc = "done"]
                /\ sqs' = sqs \cup
                     {sent_entry(l, "skip",
                         forward_envelope(l.message, l.chunks_total, l.embedded_count))}
        /\ UNCHANGED <<ct, fnVars, config, queue, s3, runs>>

\* the invocation read a COMPLETE manifest and its skip-path send raised
SkipSendFailed(l) ==
    /\ l.seen = "json"
    /\ manifest_complete(l.chunks_total, l.embedded_count)
    /\ l.path # "skip"

\* s3.get_object of the source text, then chunk_text
Download(i, readFails) ==
    LET l    == inv[i]
        obj  == s3.texts[bucket_of(l.message)][l.message.text_s3_key]
    IN  /\ l.pc = "download"
        /\ inv' = [inv EXCEPT ![i] =
              IF readFails \/ ~obj.exists
              THEN fail(l, "ClientError")
              ELSE LET r == chunk_text(obj.body, config.CHUNK_SIZE, config.CHUNK_OVERLAP)
                       f == [l EXCEPT !.fetched = TRUE, !.path = "fresh"]
                   IN  IF r.raised
                       THEN fail(f, ValueError)
                       ELSE IF Len(r.chunks) = 0
                       THEN after_loop([f EXCEPT !.chunks = r.chunks])
                       ELSE [f EXCEPT !.pc = "embed", !.chunks = r.chunks]]
        /\ UNCHANGED <<ct, fnVars, config, queue, s3, sqs, runs>>

\* one attempt of generate_embedding_with_backoff for chunk idx
InvokeModel(i, outcome) ==
    LET l == inv[i]
        r == embed_attempt(l.attempt, outcome, MAX_ATTEMPTS)
        c == [l EXCEPT !.invoked = TRUE,
                       !.entered = IF l.attempt = 0 THEN l.entered + 1 ELSE l.entered]
    IN  /\ l.pc = "embed"
        /\ inv' = [inv EXCEPT ![i] =
              IF ~r.done
              THEN [c EXCEPT !.attempt = l.attempt + 1]
              ELSE IF r.result = "none"
              THEN chunk_failed(c)
              ELSE [c EXCEPT !.pc = "put"]]
        /\ UNCHANGED <<ct, fnVars, config, queue, s3, sqs, runs>>

\* s3.put_object of the chunk artifact, persisted += 1
PutArtifact(i, writeFails) ==
    LET l == inv[i]
        b == bucket_of(l.message)
        d == l.message.document_id
    IN  /\ l.pc = "put"
        /\ IF writeFails
           THEN /\ inv' = [inv EXCEPT ![i] = fail(l, "ClientError")]
                /\ s3' = s3
           ELSE /\ s3' = [s3 EXCEPT !.artifacts[b][d] = @ \cup {l.idx}]
                /\ inv' = [inv EXCEPT ![i] =
                      next_chunk([l EXCEPT !.persisted = l.persisted + 1,
                                           !.wrote = Append(l.wrote, artifact_key(d, l.idx))])]
        /\ UNCHANGED <<ct, fnVars, config, queue, sqs, runs>>

\* _put_manifest: the success marker
PutManifest(i, writeFails) ==
    LET l == inv[i]
        b == bucket_of(l.message)
        d == l.message.document_id
    IN  /\ l.pc = "manifest"
        /\ IF writeFails
           THEN /\ inv' = [inv EXCEPT ![i] = fail(l, "ClientError")]
                /\ s3' = s3
           ELSE /\ s3' = [s3 EXCEPT !.manifest[b][d] =
                                new_manifest(Len(l.chunks), l.persisted, l.run)]
                /\ inv' = [inv EXCEPT ![i] =
                      [l EXCEPT !.pc = "forward",
                                !.wrote = Append(l.wrote, manifest_key(d))]]
        /\ UNCHANGED <<ct, fnVars, config, queue, sqs, runs>>

\* sqs.send_message of the whitelisted envelope after a fresh run
Forward(i, sendFails) ==
    LET l == inv[i]
    IN  /\ l.pc = "forward"
        /\ IF sendFails
           THEN /\ inv' = [inv EXCEPT ![i] = fail(l, "SendError")]
                /\ sqs' = sqs
           ELSE /\ inv' = [inv EXCEPT ![i].pc = "done"]
                /\ sqs' = sqs \cup
                     {sent_entry(l, "fresh",
                         forward_envelope(l.message, Len(l.chunks), l.persisted))}
        /\ UNCHANGED <<ct, fnVars, config, queue, s3, runs>>

\* the invocation is interrupted (crash, or the lease expires)
Crash(i) ==
    /\ inv[i].pc \in {"check", "skip", "download", "embed", "put", "manifest", "forward"}
    /\ inv' = [inv EXCEPT ![i].pc = "crashed"]
    /\ UNCHANGED <<ct, fnVars, config, queue, s3, sqs, runs>>

Next ==
    \/ \E i \in DOMAIN inv, m \in queue : Deliver(i, m)
    \/ \E i \in DOMAIN inv, f \in BOOLEAN : CheckManifest(i, f)
    \/ \E i \in DOMAIN inv, f \in BOOLEAN : SkipForward(i, f)
    \/ \E i \in DOMAIN inv, f \in BOOLEAN : Download(i, f)
    \/ \E i \in DOMAIN inv, o \in InvokeOutcomes : InvokeModel(i, o)
    \/ \E i \in DOMAIN inv, f \in BOOLEAN : PutArtifact(i, f)
    \/ \E i \in DOMAIN inv, f \in BOOLEAN : PutManifest(i, f)
    \/ \E i \in DOMAIN inv, f \in BOOLEAN : Forward(i, f)
    \/ \E i \in DOMAIN inv : Crash(i)

Init == ct = ctIdle /\ fnIdle /\ InitStage

Spec == Init /\ [][Next]_vars

(***************************************************************************)
(* Properties of the chunk_and_embed stage                                 *)
(***************************************************************************)
\* the manifest object of the document of invocation i, in the bucket it reads
StoredManifest(i) ==
    s3.manifest[bucket_of(inv[i].message)][inv[i].message.document_id]

\* the messages run r has sent to the next queue
SentBy(r) == {e \in sqs : e.run = r}

\* the error recorded last on the message of a failed invocation
LastError(l) ==
    IF "errors" \in DOMAIN l.message /\ Len(l.message.errors) > 0
    THEN l.message.errors[Len(l.message.errors)].error
    ELSE "none"

\* positions of a fresh run before it writes the manifest
BeforeManifest == {"download", "embed", "put", "manifest"}

\* C1: an invocation that finds a COMPLETE manifest (embedded >= chunks > 0)
\* makes no derivation call, fetches no source text, writes nothing, and
\* forwards exactly one envelope, built from the message's ids and the stored
\* counts; so every such invocation of the same message forwards the same
\* envelope while the manifest stands.  Only a failed manifest read makes an
\* invocation reprocess a document whose stored manifest is COMPLETE.
C1_CompleteManifestSkips ==
    \A i \in DOMAIN inv :
        LET l == inv[i]
            m == StoredManifest(i)
        IN  /\ l.path = "skip" =>
                /\ m.state = "json" /\ m.embedded >= m.chunks /\ m.chunks > 0
                /\ ~l.invoked /\ l.entered = 0 /\ ~l.fetched /\ l.wrote = <<>>
                /\ l.pc \in {"skip", "done", "failed", "crashed"}
                /\ \A e \in SentBy(l.run) :
                      /\ e.path = "skip"
                      /\ e.body.document_id = l.message.document_id
                      /\ e.body.text_s3_key = l.message.text_s3_key
                      /\ e.body.chunks_created = m.chunks
                      /\ e.body.embeddings_persisted = m.embedded
                /\ Cardinality(SentBy(l.run)) = IF l.pc = "done" THEN 1 ELSE 0
            /\ (/\ l.pc \in {"skip"} \cup BeforeManifest
                /\ m.state = "json" /\ m.embedded >= m.chunks /\ m.chunks > 0
                /\ l.seen # "ClientError") => l.path = "skip"

\* C1 witness: two invocations have taken the skip path and forwarded equal
\* envelopes
C1_Witness ==
    \E e1, e2 \in sqs :
        /\ e1.path = "skip" /\ e2.path = "skip" /\ e1.run # e2.run
        /\ e1.body = e2.body

\* C2: an invocation whose manifest is absent, unreadable, or fails the
\* completion test never takes the skip path: it forwards nothing built from
\* the stored counts, and it cannot reach the manifest write without having
\* fetched the source text and, for a text with a non-blank chunk, having
\* called the derivation endpoint.
C2_PartialNeverSkips ==
    \A i \in DOMAIN inv :
        LET l == inv[i]
            m == StoredManifest(i)
            notComplete == \/ l.seen \in {"NoSuchKey", "Corrupt", "ClientError"}
                           \/ /\ l.seen = "json"
                              /\ ~(l.embedded_count >= l.chunks_total /\ l.chunks_total > 0)
        IN  /\ (l.pc \in BeforeManifest /\ l.seen # "ClientError") =>
                   /\ l.seen = m.state
                   /\ l.seen = "json" =>
                         l.chunks_total = m.chunks /\ l.embedded_count = m.embedded
            /\ notComplete =>
                /\ l.path # "skip" /\ l.pc # "skip"
                /\ l.pc \in {"manifest", "forward", "done"} =>
                      /\ l.fetched
                      /\ Len(l.chunks) > 0 => l.invoked /\ l.entered >= 1
                /\ \A e \in SentBy(l.run) :
                      /\ e.path = "fresh"
                      /\ e.body.chunks_created = Len(l.chunks)
                      /\ e.body.embeddings_persisted = l.persisted

\* C2 witness: a run that found a partial manifest (embedded < chunks) has
\* re-derived and forwarded counts that differ from the stored ones
C2_Witness ==
    \E i \in DOMAIN inv :
        /\ inv[i].pc = "done" /\ inv[i].seen = "json"
        /\ inv[i].embedded_count < inv[i].chunks_total
        /\ inv[i].invoked
        /\ \E e \in SentBy(inv[i].run) : e.body.chunks_created # inv[i].chunks_total

\* C3: after every chunk was attempted the run fails with the threshold error
\* exactly when persisted / max(1, chunks) is below the configured minimum;
\* a failing run has written no manifest and forwarded nothing, a ratio equal
\* to the minimum proceeds to the manifest write, and one success fewer than
\* the minimum requires fails.
C3_AdmissionGate ==
    \A i \in DOMAIN inv :
        LET l     == inv[i]
            n     == Len(l.chunks)
            below == l.persisted * 100 < config.EMBED_SUCCESS_MIN_RATIO * Max(1, n)
            short == (l.persisted + 1) * 100 >= config.EMBED_SUCCESS_MIN_RATIO * Max(1, n)
                     /\ below
            gated == l.path = "fresh" /\ l.idx = n
                     /\ l.pc \in {"manifest", "forward", "done", "failed"}
                     /\ LastError(l) \in {"none", "RuntimeError"}
        IN  /\ gated =>
                /\ below <=> (l.pc = "failed" /\ LastError(l) = "RuntimeError")
                /\ below => manifest_key(l.message.document_id) \notin
                                {l.wrote[k] : k \in 1..Len(l.wrote)}
                /\ below => SentBy(l.run) = {} /\ StoredManifest(i).by # l.run
                /\ short => l.pc = "failed"
            /\ LastError(l) = "RuntimeError" => gated /\ below
            /\ (l.path = "fresh" /\ l.pc \in {"manifest", "forward", "done"}) =>
                   l.idx = n /\ ~below

\* C3 witness: a run whose success ratio equals the minimum exactly, with a
\* failed chunk, has written its manifest
C3_Witness ==
    \E i \in DOMAIN inv :
        /\ inv[i].pc = "forward"
        /\ inv[i].persisted < Len(inv[i].chunks)
        /\ inv[i].persisted * 100 = config.EMBED_SUCCESS_MIN_RATIO * Len(inv[i].chunks)
        /\ StoredManifest(i).by = inv[i].run

\* C4: in a run that writes a manifest every chunk was attempted and every
\* artifact write precedes the manifest write, which is the run's last write;
\* the forward follows the manifest write; a run that has not reached the
\* manifest write has left no manifest.
C4_ManifestLast ==
    \A i \in DOMAIN inv :
        LET l      == inv[i]
            mk     == manifest_key(l.message.document_id)
            keys   == {l.wrote[k] : k \in 1..Len(l.wrote)}
        IN  /\ mk \in keys =>
                /\ l.wrote[Len(l.wrote)] = mk
                /\ \A k \in 1..(Len(l.wrote) - 1) : l.wrote[k] # mk
                /\ l.entered = Len(l.chunks) /\ l.idx = Len(l.chunks)
                /\ Len(l.wrote) = l.persisted + 1
                /\ l.pc \in {"forward", "done", "failed", "crashed"}
            /\ (\E e \in SentBy(l.run) : e.path = "fresh") => mk \in keys
            /\ l.path = "fresh" /\ l.pc = "done" => mk \in keys
            /\ (l.run > 0 /\ StoredManifest(i).by = l.run) <=> mk \in keys
            /\ l.pc \in {"check", "skip"} \cup BeforeManifest => mk \notin keys

\* C4 witness: a finished run wrote two artifacts and then the manifest
C4_Witness ==
    \E i \in DOMAIN inv :
        /\ inv[i].pc = "done" /\ inv[i].path = "fresh"
        /\ Len(inv[i].wrote) = 3
        /\ inv[i].wrote[3] = manifest_key(inv[i].message.document_id)

\* C5: a manifest that satisfies the completion test is never replaced by
\* one that fails it.
C5_CompleteStaysComplete ==
    [][\A b \in Buckets, d \in DocIds :
          (/\ s3.manifest[b][d].state = "json"
           /\ s3.manifest[b][d].embedded >= s3.manifest[b][d].chunks
           /\ s3.manifest[b][d].chunks > 0)
          => (/\ s3'.manifest[b][d].state = "json"
              /\ s3'.manifest[b][d].embedded >= s3'.manifest[b][d].chunks
              /\ s3'.manifest[b][d].chunks > 0)]_vars

(***************************************************************************)
(* Two deliveries for one document that differ in the fields chunk_and_embed *)
(* does not forward: the default bucket holds a one-chunk text and no      *)
(* manifest, a second bucket holds a complete manifest.  The two           *)
(* deliveries are the last two the transport makes.                        *)
(***************************************************************************)
leakDefault == [document_id |-> "d1", text_s3_key |-> "t1", client_name |-> "Acme Corp"]

leakSameBucket ==
    [document_id |-> "d1", text_s3_key |-> "t1", s3_bucket |-> "b1",
     client_name |-> "Globex", po_number |-> "PO-12345"]

leakOtherBucket ==
    [document_id |-> "d1", text_s3_key |-> "t1", s3_bucket |-> "b2",
     client_name |-> "Acme Corp"]

InitLeak ==
    /\ ct = ctIdle
    /\ fnIdle
    /\ config = [CHUNK_SIZE |-> 2, CHUNK_OVERLAP |-> 1, EMBED_SUCCESS_MIN_RATIO |-> 95]
    /\ queue = {leakDefault, leakSameBucket, leakOtherBucket}
    /\ s3 = [emptyStore EXCEPT
                !.texts["b1"]["t1"] = TextObject(<<"a", "b">>),
                !.texts["b2"]["t1"] = TextObject(<<"a", "b">>),
                !.manifest["b2"]["d1"] =
                    [state |-> "json", chunks |-> 2, embedded |-> 2, by |-> 0]]
    /\ sqs = {}
    /\ inv = [i \in ConcInvs |-> idleInv]
    /\ runs = MaxRuns - 2

SpecLeak == InitLeak /\ [][Next]_vars

\* the keys of the whitelisted envelope
Whitelist ==
    {"document_id", "text_s3_key", "embeddings_s3_prefix", "chunks_created",
     "embeddings_persisted"}

\* the run met no store read failure, no failed send and no failed chunk
Clean(l) ==
    /\ l.seen # "ClientError"
    /\ ~SkipSendFailed(l)
    /\ l.path = "fresh" => l.persisted = Len(l.chunks)

\* two runs that found the content store in the same state
SameWorld(l1, l2) == l1.world = l2.world /\ Clean(l1) /\ Clean(l2)

C7_CanonicalKeys ==
    \A i \in DOMAIN inv :
        (inv[i].pc = "done" /\ inv[i].path = "fresh") =>
            /\ Cardinality(SentBy(inv[i].run)) = 1
            /\ \A e \in SentBy(inv[i].run) :
                  /\ {"chunks_created", "embeddings_persisted", "embeddings_s3_prefix",
                      "embeddings_manifest"} \subseteq DOMAIN e.body
                  /\ e.body.embeddings_manifest = manifest_key(inv[i].message.document_id)

\* C9: under a configuration with overlap >= size chunk_text raises, and no
\* invocation calls the derivation endpoint, writes to the store or forwards.
C9_InvalidConfigIsFatal ==
    config.CHUNK_OVERLAP >= config.CHUNK_SIZE =>
        /\ \A b \in Buckets, k \in TextKeys :
              chunk_text(s3.texts[b][k].body, config.CHUNK_SIZE, config.CHUNK_OVERLAP).raised
        /\ \A i \in DOMAIN inv : ~inv[i].invoked /\ inv[i].wrote = <<>>
        /\ sqs = {}

\* C10: a chunk whose derivation fails is given up without raising: nothing
\* is written or sent for it, the count of persisted chunks is unchanged, and
\* the loop moves to the next chunk or, after the last chunk, to the success
\* ratio guard; the executor is entered once for each chunk of the run,
\* failed or not.
C10_FailureIsolation ==
    /\ [](\A i \in DOMAIN inv :
            LET l == inv[i]
            IN  l.path = "fresh" =>
                 /\ l.pc = "embed" =>
                       /\ l.idx < Len(l.chunks)
                       /\ l.entered = l.idx + (IF l.attempt > 0 THEN 1 ELSE 0)
                 /\ l.pc = "put" => l.entered = l.idx + 1
                 /\ (l.pc \in {"manifest", "forward", "done"}
                        \/ LastError(l) = "RuntimeError") =>
                       l.entered = Len(l.chunks) /\ l.idx = Len(l.chunks)
                 /\ l.persisted = Cardinality({k \in 1..Len(l.wrote) : l.wrote[k].idx >= 0})
                 /\ l.persisted <= l.entered)
    /\ [][\A i \in DOMAIN inv :
            (/\ inv[i].pc = "embed"
             /\ inv'[i].run = inv[i].run
             /\ inv'[i].pc \notin {"put", "crashed"}
             /\ ~(inv'[i].pc = "embed" /\ inv'[i].idx = inv[i].idx))
            => /\ inv'[i].idx = inv[i].idx + 1
               /\ inv'[i].entered = inv[i].idx + 1
               /\ inv'[i].persisted = inv[i].persisted
               /\ inv'[i].wrote = inv[i].wrote
               /\ s3' = s3 /\ sqs' = sqs
               /\ \/ inv'[i].pc = "embed" /\ inv'[i].attempt = 0
                  \/ /\ inv'[i].idx = Len(inv[i].chunks)
                     /\ inv'[i].pc \in {"manifest", "failed"}
                     /\ inv'[i].pc = "failed" => LastError(inv'[i]) = "RuntimeError"]_vars

\* C10 witness: the first chunk failed, the second was still derived and
\* persisted, and the run passed the guard
C10_Witness ==
    \E i \in DOMAIN inv :
        /\ inv[i].pc = "forward" /\ Len(inv[i].chunks) = 2
        /\ inv[i].persisted = 1
        /\ inv[i].wrote[1] = artifact_key(inv[i].message.document_id, 1)

\* two invocation slots over one document: a two-chunk text, no manifest yet,
\* and the last two deliveries the transport makes
InitConc ==
    /\ ct = ctIdle
    /\ fnIdle
    /\ config \in [CHUNK_SIZE : {1}, CHUNK_OVERLAP : {0},
                   EMBED_SUCCESS_MIN_RATIO : MinRatios]
    /\ queue = {baseMessage}
    /\ s3 = [emptyStore EXCEPT !.texts["b1"]["t1"] = TextObject(<<"a", "b">>)]
    /\ sqs = {}
    /\ inv = [i \in ConcInvs |-> idleInv]
    /\ runs = MaxRuns - 2

SpecConc == InitConc /\ [][Next]_vars

(***************************************************************************)
(* Specification of chunk_text alone: Init draws the arguments, the        *)
(* actions run the call one loop pass at a time.                           *)
(***************************************************************************)
ChunkInputs ==
    (TextsUpTo(Chars, MaxTextLen) \X (1..MaxChunkSize) \X (0..MaxChunkSize))
        \cup {<<ExampleText, 30, 10>>}

InitChunk ==
    /\ \E inp \in ChunkInputs :
        ct = [text |-> inp[1], chunk_size |-> inp[2], overlap |-> inp[3],
              pc |-> "call", st |-> chunk_start, iters |-> 0]
    /\ fnIdle
    /\ config = [CHUNK_SIZE |-> 1, CHUNK_OVERLAP |-> 0, EMBED_SUCCESS_MIN_RATIO |-> 95]
    /\ queue = {}
    /\ s3 = emptyStore
    /\ sqs = {}
    /\ inv = [i \in SeqInvs |-> idleInv]
    /\ runs = 0

\* the overlap guard: raise, or enter the loop
ChunkEnter ==
    /\ ct.pc = "call"
    /\ ct' = [ct EXCEPT !.pc = IF chunk_config_invalid(ct.chunk_size, ct.overlap)
                               THEN "raised" ELSE "loop"]
    /\ UNCHANGED <<stageVars, fnVars>>

\* one pass of the while loop
ChunkIter ==
    /\ ct.pc = "loop"
    /\ chunk_loop_running(ct.text, ct.st)
    /\ ct' = [ct EXCEPT !.st = chunk_iter(ct.text, ct.chunk_size, ct.overlap, ct.st),
                        !.iters = ct.iters + 1]
    /\ UNCHANGED <<stageVars, fnVars>>

\* the loop has ended: return chunks
ChunkReturn ==
    /\ ct.pc = "loop"
    /\ ~chunk_loop_running(ct.text, ct.st)
    /\ ct' = [ct EXCEPT !.pc = "returned"]
    /\ UNCHANGED <<stageVars, fnVars>>

NextChunk == ChunkEnter \/ ChunkIter \/ ChunkReturn

SpecChunk == InitChunk /\ [][NextChunk]_vars

(***************************************************************************)
(* Properties of chunk_text                                                *)
(***************************************************************************)
\* index of the last window of a text of length n: the first window whose
\* end reaches n
LastWindow(n, chunk_size, overlap) ==
    CHOOSE k \in 0..n :
        /\ k * (chunk_size - overlap) + chunk_size >= n
        /\ \A j \in 0..(k - 1) : j * (chunk_size - overlap) + chunk_size < n

\* window k of the text
Window(text, chunk_size, overlap, k) ==
    Slice(text, k * (chunk_size - overlap),
          Min(k * (chunk_size - overlap) + chunk_size, Len(text)))

\* C8: for size > 0, 0 <= overlap < size and a text of length n >= 1 without
\* blank windows, chunk_text ends after one pass per window and returns the
\* windows: window k starts at k * (size - overlap), all but the last have
\* length size, the last ends at n; a text no longer than size is returned
\* as one chunk; size 30, overlap 10, n = 100 gives starts 0, 20, 40, 60, 80
\* and lengths 30, 30, 30, 30, 20.
C8_SlidingWindows ==
    LET text == ct.text
        n    == Len(text)
        size == ct.chunk_size
        ov   == ct.overlap
        last == LastWindow(n, size, ov)
        pre  == /\ ct.pc # "unused" /\ size > 0 /\ 0 <= ov /\ ov < size /\ n >= 1
                /\ \A k \in 0..LastWindow(n, size, ov) : ~IsBlank(Window(text, size, ov, k))
    IN  pre =>
          /\ ct.pc # "raised"
          /\ ct.iters <= last + 1
          /\ ct.pc = "loop" => Len(ct.st.chunks) = ct.iters
          /\ (ct.pc = "loop" /\ ~chunk_loop_running(text, ct.st)) => ct.iters = last + 1
          /\ ct.pc = "returned" =>
                /\ Len(ct.st.chunks) = last + 1
                /\ \A k \in 0..last :
                      /\ ct.st.starts[k + 1] = k * (size - ov)
                      /\ ct.st.chunks[k + 1] = Window(text, size, ov, k)
                      /\ k < last => Len(ct.st.chunks[k + 1]) = size
                /\ ct.st.starts[last + 1] + Len(ct.st.chunks[last + 1]) = n
                /\ n <= size => ct.st.chunks = <<text>>
                /\ (text = ExampleText /\ size = 30 /\ ov = 10) =>
                      /\ ct.st.starts = <<0, 20, 40, 60, 80>>
                      /\ [k \in 1..5 |-> Len(ct.st.chunks[k])] = <<30, 30, 30, 30, 20>>

\* C8 witness: the call on the 100-character text has returned five chunks
C8_Witness ==
    /\ ct.pc = "returned" /\ ct.text = ExampleText
    /\ ct.chunk_size = 30 /\ ct.overlap = 10
    /\ Len(ct.st.chunks) = 5


(***************************************************************************)
(* Specification of generate_embedding_with_backoff alone: Init draws      *)
(* max_attempts, each action is one pass of the attempt loop.              *)
(***************************************************************************)
\* largest max_attempts the executor is traced with
MaxAttemptsTraced == 6

\* random.random(), in tenths of a second
JitterTenths == {0, 9}

\* the stage variables of a specification that runs no invocation
stageUnused ==
    /\ config = [CHUNK_SIZE |-> 1, CHUNK_OVERLAP |-> 0, EMBED_SUCCESS_MIN_RATIO |-> 95]
    /\ queue = {}
    /\ s3 = emptyStore
    /\ sqs = {}
    /\ inv = [i \in SeqInvs |-> idleInv]
    /\ runs = 0

InitEmbed ==
    /\ ct = ctIdle
    /\ stageUnused
    /\ sv = svIdle
    /\ ex = exIdle
    /\ vr = vrIdle
    /\ restIdle
    /\ \E m \in 0..MaxAttemptsTraced :
          ge = [geIdle EXCEPT !.pc = "loop", !.max_attempts = m]

\* one pass of the for loop: invoke_model, then return or sleep and continue
EmbedAttempt(outcome, jitter) ==
    LET r == embed_attempt(ge.attempt, outcome, ge.max_attempts)
    IN  /\ ge.pc = "loop"
        /\ ge.attempt < ge.max_attempts
        /\ ge' = IF r.done
                 THEN [ge EXCEPT !.pc = "returned", !.calls = ge.calls + 1,
                                 !.last = outcome, !.result = r.result]
                 ELSE [ge EXCEPT !.attempt = ge.attempt + 1, !.calls = ge.calls + 1,
                                 !.last = outcome,
                                 !.sleeps = Append(ge.sleeps, 10 * r.sleep + jitter),
                                 !.retried = ge.retried \cup {outcome}]
        /\ UNCHANGED <<ct, stageVars, sv, ex, vr, restVars>>

\* range(max_attempts) is exhausted: the return None after the loop
EmbedExhausted ==
    /\ ge.pc = "loop"
    /\ ge.attempt >= ge.max_attempts
    /\ ge' = [ge EXCEPT !.pc = "returned", !.result = "none"]
    /\ UNCHANGED <<ct, stageVars, sv, ex, vr, restVars>>

NextEmbed ==
    \/ \E o \in EmbedOutcomes, j \in JitterTenths : EmbedAttempt(o, j)
    \/ EmbedExhausted

SpecEmbed == InitEmbed /\ [][NextEmbed]_vars

\* the status the executor classifies a ClientError by
error_code_of(outcome) == IF outcome.code = NoStatusCode THEN 500 ELSE outcome.code

\* C11: a failed call is retried only when the failure is a rate-limit or
\* server error (status 429, 500, 502, 503, 504, a missing status counting as
\* 500); every other failure ends the call after that attempt, with no sleep
\* and no further invocation.
C11_OnlyServerErrorsRetried ==
    /\ \A o \in ge.retried :
          o.kind = "ClientError" /\ error_code_of(o) \in {429, 500, 502, 503, 504}
    /\ (ge.calls > 0 /\ ge.pc = "loop") =>
          (ge.last.kind = "ClientError"
              /\ error_code_of(ge.last) \in {429, 500, 502, 503, 504})

\* the sleep bases the schedule prescribes: 1, 2, 4, 8, then the cap
ScheduledBase(k) == IF k <= 4 THEN <<1, 2, 4, 8>>[k] ELSE 8

\* C12: the endpoint is invoked at most max_attempts times; the sleep after
\* failed attempt i is min(8, 2^i) plus a jitter in [0,1): bases 1, 2, 4, 8,
\* non-decreasing and never above 8; no sleep follows the final attempt and
\* the executor stops at the first successful attempt.
C12_RetryBoundAndBackoff ==
    /\ ge.calls <= ge.max_attempts
    /\ \A k \in 1..Len(ge.sleeps) :
          /\ ge.sleeps[k] >= 10 * ScheduledBase(k)
          /\ ge.sleeps[k] < 10 * ScheduledBase(k) + 10
          /\ ge.sleeps[k] < 90
          /\ k > 1 => ge.sleeps[k] \div 10 >= ge.sleeps[k - 1] \div 10
    /\ ge.pc = "loop" => Len(ge.sleeps) = ge.calls
    /\ (ge.pc = "returned" /\ ge.calls > 0) => Len(ge.sleeps) = ge.calls - 1
    /\ \A o \in ge.retried : o.kind # "response"
    /\ ge.last.kind = "response" => (ge.pc = "returned" /\ ge.result = ge.last.embedding)
    /\ ge.result = "vector" => ge.last.kind = "response"

\* C12 witness: a call that failed on every attempt, slept up to the cap
\* twice and gave up after the last attempt
C12_Witness ==
    /\ ge.pc = "returned"
    /\ ge.max_attempts = 6
    /\ ge.calls = 6
    /\ Len(ge.sleeps) = 5
    /\ ge.sleeps[5] \div 10 = 8
    /\ ge.last.code = 503
    /\ ge.result = "none"



(***************************************************************************)
(* Specification of validate_sow_data_strict alone: Init draws the payload *)
(* (the parsed output of the extraction endpoint), the actions are the two *)
(* ways the call ends.                                                     *)
(***************************************************************************)
\* longest day_rates array built from the core items
MaxItems == 2

\* a key that the payload does not have
Absent == [t |-> "absent"]

Reverse(s) == [i \in 1..Len(s) |-> s[Len(s) + 1 - i]]

\* the dict with the keys of order that a holds, in that order
mk_dict(a, order) ==
    LET present == SelectSeq(order, LAMBDA k : a[k] # Absent)
    IN  JObj([i \in 1..Len(present) |-> [k |-> present[i], v |-> a[present[i]]]])

\* field names the schema does not declare
ExtraNames == {"notes", "vendor"}

\* a string of n characters
LongString(n) == JStr([i \in 1..n |-> "x"])

\* values of every JSON type, tried for every field
ScalarCands ==
    {JNull, JStr(<<>>), JStr(<<" ">>), JStr(<<"A", "c", "m", "e">>), JNum(500), JNum(-1),
     JBool(TRUE), JBool(FALSE), JArr(<<>>), JObj(<<>>)}

ItemOrder == <<"role", "rate", "currency", "notes", "vendor">>

baseItemFields ==
    [role |-> JStr(<<"D", "e", "v">>), rate |-> JNum(500), currency |-> JStr(<<"G", "B", "P">>),
     notes |-> Absent, vendor |-> Absent]

ItemCands ==
    ScalarCands \cup {Absent, JNum(0), JNum(5001), JStr(<<"J", "P", "Y">>), LongString(101)}

ItemFields ==
    {baseItemFields}
    \cup {[baseItemFields EXCEPT ![f] = v] : f \in {"role", "rate", "currency"},
                                             v \in ItemCands}
    \cup {[baseItemFields EXCEPT !.notes = JNum(1)],
          [baseItemFields EXCEPT !.notes = JNum(1), !.vendor = JStr(<<"A", "c", "m", "e">>)],
          [baseItemFields EXCEPT !.role = Absent, !.notes = JNum(1)],
          [baseItemFields EXCEPT !.role = JNull, !.rate = Absent],
          [baseItemFields EXCEPT !.rate = JBool(TRUE), !.notes = JNull],
          [baseItemFields EXCEPT !.role = JNum(1), !.rate = JStr(<<"D", "e", "v">>)]}

baseItem == mk_dict(baseItemFields, ItemOrder)

Items ==
    {mk_dict(a, ItemOrder) : a \in ItemFields}
    \cup {mk_dict([baseItemFields EXCEPT !.role = JNum(1), !.rate = JStr(<<"D", "e", "v">>)],
                  Reverse(ItemOrder)),
          mk_dict([baseItemFields EXCEPT !.notes = JNum(1), !.rate = Absent],
                  Reverse(ItemOrder))}
    \cup {JNull, JNum(5), JStr(<<"D", "e", "v">>)}

\* the items that longer arrays are built from
CoreItems ==
    {baseItem,
     mk_dict([baseItemFields EXCEPT !.role = Absent], ItemOrder),
     mk_dict([baseItemFields EXCEPT !.rate = JNum(5001)], ItemOrder),
     mk_dict([baseItemFields EXCEPT !.notes = JNum(1)], ItemOrder),
     JNull}

Arrays ==
    {JArr(<<>>)}
    \cup {JArr(<<x>>) : x \in Items}
    \cup {JArr(<<baseItem, x>>) : x \in Items}
    \cup UNION {{JArr(q) : q \in [1..n -> CoreItems]} : n \in 2..MaxItems}

TopFields ==
    {"client_name", "contract_value", "start_date", "end_date", "po_number",
     "ir35_status", "day_rates", "signatures_present"}

TopOrder ==
    <<"client_name", "contract_value", "start_date", "end_date", "po_number",
      "ir35_status", "day_rates", "signatures_present", "notes", "vendor">>

baseFields ==
    [client_name |-> JStr(<<"A", "c", "m", "e">>), contract_value |-> JNum(500),
     start_date |-> JStr(<<"2", "0", "2", "5", "-", "0", "1", "-", "0", "1">>), end_date |-> JStr(<<"2", "0", "2", "5", "-", "1", "2", "-", "3", "1">>),
     po_number |-> JStr(<<"P", "O", "1">>), ir35_status |-> JStr(<<"I", "n", "s", "i", "d", "e">>),
     day_rates |-> JArr(<<baseItem>>), signatures_present |-> JBool(TRUE),
     notes |-> Absent, vendor |-> Absent]

\* the values tried for a top-level field
Cands(f) ==
    ScalarCands \cup {Absent}
    \cup (IF f = "client_name" THEN {LongString(201)}
          ELSE IF f = "contract_value" THEN {JNum(0), JNum(100000001)}
          ELSE IF f \in {"start_date", "end_date"}
          THEN {JStr(<<"2", "0", "2", "5", "-", "1", "3", "-", "4", "5">>), JStr(<<"0", "1", "/", "0", "1", "/", "2", "0", "2", "5">>)}
          ELSE IF f = "po_number" THEN {LongString(101)}
          ELSE IF f = "ir35_status" THEN {JStr(<<"O", "u", "t", "s", "i", "d", "e">>), JStr(<<"M", "a", "y", "b", "e">>)}
          ELSE IF f = "day_rates" THEN Arrays
          ELSE {})

\* the values tried for a second field
CoreCands == {Absent, JNull, JBool(TRUE), JStr(<<" ">>)}

\* the base payload with one field changed
OneChanged == UNION {{[baseFields EXCEPT ![f] = v] : v \in Cands(f)} : f \in TopFields}

\* ... with one field changed to a scalar and a second field changed
TwoChanged ==
    UNION {{[baseFields EXCEPT ![f] = v, ![g] = w] :
                v \in ScalarCands \cup {Absent}, w \in CoreCands} :
              f \in TopFields, g \in TopFields}

\* undeclared fields added at top level
WithExtras(a) ==
    {a, [a EXCEPT !.notes = JNum(1)],
        [a EXCEPT !.notes = JNum(1), !.vendor = JStr(<<"A", "c", "m", "e">>)]}

Payloads ==
    UNION {{mk_dict(x, o) : x \in WithExtras(a), o \in {TopOrder, Reverse(TopOrder)}} :
              a \in {baseFields} \cup OneChanged}
    \cup {mk_dict(a, TopOrder) : a \in TwoChanged}
    \cup {JNull, JArr(<<>>), JStr(<<"A", "c", "m", "e">>)}

\* some dict of the payload holds both undeclared names
HasTwoExtras(data) ==
    /\ data.t = "object"
    /\ \/ ExtraNames \subseteq Keys(data)
       \/ /\ Has(data, "day_rates")
          /\ LET v == data.pairs[Lookup(data, "day_rates")].v
             IN  /\ v.t = "array"
                 /\ \E i \in DOMAIN v.items :
                       v.items[i].t = "object" /\ ExtraNames \subseteq Keys(v.items[i])

InitSchema ==
    /\ ct = ctIdle
    /\ stageUnused
    /\ ge = geIdle
    /\ ex = exIdle
    /\ vr = vrIdle
    /\ restIdle
    /\ \E data \in Payloads, pref \in ExtraNames :
          /\ pref = "notes" \/ HasTwoExtras(data)
          /\ sv = [pc |-> "call", data |-> data, pref |-> pref, result |-> Valid,
                   returned |-> JNull]

\* validate_sow_data_strict returns the data
SchemaReturn ==
    LET r == validate_sow_data_strict(sv.data, sv.pref)
    IN  /\ sv.pc = "call"
        /\ r.ok
        /\ sv' = [sv EXCEPT !.pc = "returned", !.result = r, !.returned = sv.data]
        /\ UNCHANGED <<ct, stageVars, ge, ex, vr, restVars>>

\* validate_sow_data_strict raises SchemaValidationError
SchemaRaise ==
    LET r == validate_sow_data_strict(sv.data, sv.pref)
    IN  /\ sv.pc = "call"
        /\ ~r.ok
        /\ sv' = [sv EXCEPT !.pc = "raised", !.result = r]
        /\ UNCHANGED <<ct, stageVars, ge, ex, vr, restVars>>

NextSchema == SchemaReturn \/ SchemaRaise

SpecSchema == InitSchema /\ [][NextSchema]_vars


(***************************************************************************)
(* Properties of the strict schema validator                               *)
(***************************************************************************)
\* the names the schema declares, and the required ones
DeclaredTop ==
    {"client_name", "contract_value", "start_date", "end_date", "po_number",
     "ir35_status", "day_rates", "signatures_present"}
DeclaredItem == {"role", "rate", "currency"}

\* the call has ended
SvDone == sv.pc \in {"returned", "raised"}

\* the items of day_rates when it is an array (index i of the code is
\* position i + 1 here)
ItemsOf(d) ==
    IF d.t = "object" /\ Has(d, "day_rates")
         /\ d.pairs[Lookup(d, "day_rates")].v.t = "array"
    THEN d.pairs[Lookup(d, "day_rates")].v.items
    ELSE <<>>

ValueOf(d, k) == IF d.t = "object" /\ Has(d, k) THEN d.pairs[Lookup(d, k)].v ELSE Absent

\* d with key k set to v
SetKey(d, k, v) ==
    IF Has(d, k)
    THEN JObj([i \in DOMAIN d.pairs |->
                  IF d.pairs[i].k = k THEN [k |-> k, v |-> v] ELSE d.pairs[i]])
    ELSE JObj(Append(d.pairs, [k |-> k, v |-> v]))

\* d with item i (0-based) of day_rates replaced
SetItem(d, i, item) ==
    SetKey(d, "day_rates", JArr([ItemsOf(d) EXCEPT ![i + 1] = item]))

\* d without the keys outside names
Only(d, names) == JObj(SelectSeq(d.pairs, LAMBDA q : q.k \in names))

\* the payload with every undeclared field removed, at top level and in items
Stripped(d) ==
    LET top == Only(d, DeclaredTop)
    IN  IF ItemsOf(d) = <<>> THEN top
        ELSE SetKey(top, "day_rates",
                    JArr([i \in DOMAIN ItemsOf(d) |->
                            IF ItemsOf(d)[i].t = "object"
                            THEN Only(ItemsOf(d)[i], DeclaredItem)
                            ELSE ItemsOf(d)[i]]))

\* items (0-based) that are dicts holding an undeclared field
ItemsWithExtra(d) ==
    {i \in 0..(Len(ItemsOf(d)) - 1) :
        /\ ItemsOf(d)[i + 1].t = "object"
        /\ Keys(ItemsOf(d)[i + 1]) \ DeclaredItem # {}}

HasUndeclared(d) ==
    d.t = "object" /\ (Keys(d) \ DeclaredTop # {} \/ ItemsWithExtra(d) # {})

\* C15 as stated: every payload that contains an undeclared field, at top
\* level or inside a day_rates item, is rejected with code VAL_SCHEMA_EXTRA.
C15_ExtraAlwaysCoded ==
    (SvDone /\ HasUndeclared(sv.data)) =>
        (sv.pc = "raised" /\ sv.result.code = "VAL_SCHEMA_EXTRA")

\* C15 amended: every payload that contains an undeclared field is rejected
\* and none is returned with a field dropped; the code is VAL_SCHEMA_EXTRA,
\* naming an undeclared field, whenever the payload without its undeclared
\* fields is valid.
C15_ClosedWorld ==
    /\ (SvDone /\ HasUndeclared(sv.data)) => sv.pc = "raised"
    /\ sv.pc = "returned" => (sv.returned = sv.data /\ ~HasUndeclared(sv.returned))
    /\ (SvDone /\ HasUndeclared(sv.data)
          /\ validate_sow_data_strict(Stripped(sv.data), sv.pref).ok) =>
          /\ sv.result.code = "VAL_SCHEMA_EXTRA"
          /\ IF Keys(sv.data) \ DeclaredTop # {}
             THEN \E x \in Keys(sv.data) \ DeclaredTop :
                     sv.result.field = <<[name |-> x, idx |-> -1]>>
             ELSE \E i \in ItemsWithExtra(sv.data) :
                     \E x \in Keys(ItemsOf(sv.data)[i + 1]) \ DeclaredItem :
                         sv.result.field =
                             <<[name |-> "day_rates", idx |-> i], [name |-> x, idx |-> -1]>>

\* C15 witness: a payload whose declared fields are all valid was rejected
\* for an undeclared field inside its second day_rates item
C15_Witness ==
    /\ sv.pc = "raised"
    /\ sv.data.t = "object"
    /\ Keys(sv.data) = DeclaredTop
    /\ ItemsWithExtra(sv.data) = {1}
    /\ validate_sow_data_strict(Stripped(sv.data), sv.pref).ok
    /\ sv.result.code = "VAL_SCHEMA_EXTRA"
    /\ sv.result.field[1] = [name |-> "day_rates", idx |-> 1]

\* a required value that counts as empty: null or a blank string
IsEmptyValue(v) == v.t = "null" \/ (v.t = "string" /\ \A i \in DOMAIN v.s : v.s[i] \in {" ", "\n", "\t"})

\* dict items of day_rates, 0-based
DictItems(d) == {i \in 0..(Len(ItemsOf(d)) - 1) : ItemsOf(d)[i + 1].t = "object"}

\* C16 as stated: a payload in which a required field (client_name; role,
\* rate, currency of an item) is missing is rejected with VAL_SCHEMA_REQUIRED,
\* one in which it is null or blank with VAL_SCHEMA_EMPTY.
C16_RequiredAlwaysCoded ==
    (SvDone /\ sv.data.t = "object") =>
        /\ ~Has(sv.data, "client_name") => sv.result.code = "VAL_SCHEMA_REQUIRED"
        /\ IsEmptyValue(ValueOf(sv.data, "client_name")) =>
              sv.result.code = "VAL_SCHEMA_EMPTY"
        /\ \A i \in DictItems(sv.data), f \in DeclaredItem :
              /\ ~Has(ItemsOf(sv.data)[i + 1], f) =>
                    sv.result.code = "VAL_SCHEMA_REQUIRED"
              /\ IsEmptyValue(ValueOf(ItemsOf(sv.data)[i + 1], f)) =>
                    sv.result.code = "VAL_SCHEMA_EMPTY"

\* the payload with field f of item i given a valid value
ItemRepaired(d, i, f) == SetItem(d, i, SetKey(ItemsOf(d)[i + 1], f, baseItemFields[f]))

\* C16 amended: a payload without client_name is rejected with
\* VAL_SCHEMA_REQUIRED and one whose client_name is null or blank with
\* VAL_SCHEMA_EMPTY; for role, rate and currency of a day_rates item the same
\* holds, with the field reported as day_rates[i].f, when the payload is valid
\* apart from that field.
C16_RequiredFields ==
    (SvDone /\ sv.data.t = "object") =>
        /\ ~Has(sv.data, "client_name") =>
              sv.result = [ok |-> FALSE, code |-> "VAL_SCHEMA_REQUIRED",
                           field |-> <<[name |-> "client_name", idx |-> -1]>>]
        /\ IsEmptyValue(ValueOf(sv.data, "client_name")) =>
              sv.result = [ok |-> FALSE, code |-> "VAL_SCHEMA_EMPTY",
                           field |-> <<[name |-> "client_name", idx |-> -1]>>]
        /\ \A i \in DictItems(sv.data), f \in DeclaredItem :
              LET item == ItemsOf(sv.data)[i + 1]
                  path == <<[name |-> "day_rates", idx |-> i], [name |-> f, idx |-> -1]>>
              IN  validate_sow_data_strict(ItemRepaired(sv.data, i, f), sv.pref).ok =>
                      /\ ~Has(item, f) =>
                            sv.result = [ok |-> FALSE, code |-> "VAL_SCHEMA_REQUIRED",
                                         field |-> path]
                      /\ IsEmptyValue(ValueOf(item, f)) =>
                            sv.result = [ok |-> FALSE, code |-> "VAL_SCHEMA_EMPTY",
                                         field |-> path]

\* C16 witness: a payload valid apart from the null rate of its second item
\* was rejected
C16_Witness ==
    /\ sv.pc = "raised"
    /\ 1 \in DictItems(sv.data)
    /\ ValueOf(ItemsOf(sv.data)[2], "rate") = JNull
    /\ validate_sow_data_strict(ItemRepaired(sv.data, 1, "rate"), sv.pref).ok
    /\ sv.result.code = "VAL_SCHEMA_EMPTY"


\* the JSON types each field declares, null aside
TopTypes ==
    [client_name |-> {"string"}, contract_value |-> {"number"},
     start_date |-> {"string"}, end_date |-> {"string"}, po_number |-> {"string"},
     ir35_status |-> {"string"}, day_rates |-> {"array"},
     signatures_present |-> {"boolean"}]
ItemTypes == [role |-> {"string"}, rate |-> {"number"}, currency |-> {"string"}]

\* a present, non-null value of a JSON type the field does not declare
WrongType(v, types) == v # Absent /\ v.t # "null" /\ v.t \notin types

\* C17: a present non-null value whose JSON type is not one of the field's
\* declared types makes the payload rejected with VAL_SCHEMA_TYPE (stated for
\* payloads that are valid apart from that value); in particular a boolean
\* for contract_value or for the rate of an item, and a number for
\* signatures_present.
C17_TypeChecked ==
    (SvDone /\ sv.data.t = "object") =>
        /\ \A f \in DeclaredTop :
              (/\ WrongType(ValueOf(sv.data, f), TopTypes[f])
               /\ validate_sow_data_strict(SetKey(sv.data, f, baseFields[f]), sv.pref).ok)
              => (sv.pc = "raised" /\ sv.result.code = "VAL_SCHEMA_TYPE")
        /\ \A i \in DictItems(sv.data), f \in DeclaredItem :
              (/\ WrongType(ValueOf(ItemsOf(sv.data)[i + 1], f), ItemTypes[f])
               /\ validate_sow_data_strict(ItemRepaired(sv.data, i, f), sv.pref).ok)
              => (sv.pc = "raised" /\ sv.result.code = "VAL_SCHEMA_TYPE")

\* C18: a present null is accepted for contract_value, start_date, end_date,
\* po_number and ir35_status (in an otherwise valid payload) and rejected for
\* day_rates and signatures_present.
C18_NullOnlyWhereDeclared ==
    (SvDone /\ sv.data.t = "object") =>
        /\ \A f \in {"contract_value", "start_date", "end_date", "po_number",
                     "ir35_status"} :
              (/\ ValueOf(sv.data, f) = JNull
               /\ validate_sow_data_strict(SetKey(sv.data, f, baseFields[f]), sv.pref).ok)
              => sv.pc = "returned"
        /\ \A f \in {"day_rates", "signatures_present"} :
              ValueOf(sv.data, f) = JNull => sv.pc = "raised"

\* what validating item i (0-based) of day_rates on its own raises
NestedError(d, i) == validate_against_schema(ItemsOf(d)[i + 1], ItemSchema, sv.pref)

\* the invalid items of day_rates, 0-based
InvalidItems(d) == {i \in 0..(Len(ItemsOf(d)) - 1) : ~NestedError(d, i).ok}

\* C19: an error raised for an item of day_rates carries the item's own code
\* and the field day_rates[i].f (day_rates[i] when the nested error names no
\* field), i being the lowest index of an invalid item; and a payload whose
\* only invalid part is in day_rates items is rejected with such an error.
C19_ItemErrorsIndexed ==
    (SvDone /\ sv.data.t = "object") =>
        LET bad == InvalidItems(sv.data)
            low == CHOOSE i \in bad : \A j \in bad : i <= j
            at == [name |-> "day_rates", idx |-> low]
        IN  /\ (sv.pc = "raised" /\ sv.result.field # <<>> /\ sv.result.field[1].idx >= 0) =>
                  /\ bad # {}
                  /\ sv.result.code = NestedError(sv.data, low).code
                  /\ sv.result.field =
                        IF NestedError(sv.data, low).field = <<>>
                        THEN <<at>>
                        ELSE <<at>> \o NestedError(sv.data, low).field
            /\ (bad # {}
                  /\ validate_sow_data_strict(SetKey(sv.data, "day_rates", JArr(<<>>)),
                                              sv.pref).ok) =>
                  (sv.pc = "raised" /\ sv.result.field # <<>> /\ sv.result.field[1] = at)

\* C19 witness: the second item of day_rates has a rate above the maximum,
\* the first is valid, and the error names day_rates[1].rate
C19_Witness ==
    /\ sv.pc = "raised"
    /\ sv.data.t = "object"
    /\ InvalidItems(sv.data) = {1}
    /\ sv.result.code = "VAL_SCHEMA_RANGE"
    /\ sv.result.field =
          <<[name |-> "day_rates", idx |-> 1], [name |-> "rate", idx |-> -1]>>


(***************************************************************************)
(* Specification of the extract_structured_data stage for one record:      *)
(* download, extract_with_gemini one attempt at a time, forward.           *)
(***************************************************************************)
\* an entry an earlier delivery left in message['errors']
EarlierError == [stage |-> "extract-text", error |-> "ClientError", timestamp |-> utcnow]

\* the messages delivered to the stage: complete ones, one without
\* text_s3_key, one without document_id, and two that carry an errors list
ExMessages ==
    {baseMessage, upstreamMessage, [document_id |-> "d1"], [text_s3_key |-> "t1"],
     [document_id |-> "d1", text_s3_key |-> "t1", errors |-> <<>>],
     [document_id |-> "d1", text_s3_key |-> "t1", errors |-> <<EarlierError>>]}

\* parsed answers of the endpoint: valid ones and schema violations
ExPayloads ==
    {mk_dict(baseFields, TopOrder),
     mk_dict([baseFields EXCEPT !.contract_value = JNull, !.day_rates = JArr(<<>>)],
             TopOrder),
     mk_dict([baseFields EXCEPT !.notes = JNum(1)], TopOrder),
     mk_dict([baseFields EXCEPT !.client_name = Absent], TopOrder),
     mk_dict([baseFields EXCEPT !.ir35_status = JStr(<<"M", "a", "y", "b", "e">>)], TopOrder),
     mk_dict([baseFields EXCEPT !.contract_value = JNum(-5)], TopOrder),
     JArr(<<>>)}

ExOutcomes ==
    {[kind |-> k, payload |-> JNull] : k \in {"Exception", "JSONDecodeError"}}
    \cup {[kind |-> "json", payload |-> q] : q \in ExPayloads}

InitExtract ==
    /\ ct = ctIdle
    /\ stageUnused
    /\ ge = geIdle
    /\ sv = svIdle
    /\ vr = vrIdle
    /\ restIdle
    /\ \E m \in ExMessages : ex = [exIdle EXCEPT !.pc = "start", !.message = m]

\* the except block of the stage: log the error and the keys, record the
\* error, re-raise
ex_fail(e, error) ==
    [e EXCEPT !.pc = "failed", !.error = error,
              !.message = ex_with_error(e.message, error.kind),
              !.log = e.log
                  \o <<LogLine("error", "error stage=extract-structured-data msg=",
                               IF error.kind = "SchemaValidationError"
                               THEN schema_message_values(e.last.payload, error.code,
                                                          error.field)
                               ELSE <<>>),
                       LogLine("error", "failed keys=", <<LogKeys(DOMAIN e.message)>>)>>]

\* message['text_s3_key'] and s3.get_object of the text
ExDownload(readFails) ==
    LET received == [ex EXCEPT !.log = <<LogLine("info", "received keys=",
                                                 <<LogKeys(DOMAIN ex.message)>>)>>]
        started == [received EXCEPT !.log = received.log
                        \o <<LogLine("info", "start_extraction doc_id=",
                                     <<LogName(ex.message.document_id)>>),
                             LogLine("info", "download_text s3_key=",
                                     <<LogName(ex.message.text_s3_key)>>)>>]
    IN  /\ ex.pc = "start"
        /\ ex' = IF ~({"document_id", "text_s3_key"} \subseteq DOMAIN ex.message)
                 THEN ex_fail(received, [kind |-> "KeyError", code |-> "", field |-> NoField])
                 ELSE IF readFails
                 THEN ex_fail(started, [kind |-> "ClientError", code |-> "", field |-> NoField])
                 ELSE [started EXCEPT !.pc = "attempt",
                                      !.log = Append(started.log,
                                                  LogLine("info", "text_length=", <<>>))]
        /\ UNCHANGED <<ct, stageVars, ge, sv, vr, restVars>>

\* one pass of the attempt loop: requests.post, parse, validate, then
\* return, raise, or sleep and continue
ExAttempt(outcome) ==
    LET r == extract_attempt(ex.attempt, outcome, "notes")
        tried == Append(ex.log, LogLine("info", "gemini attempt=", <<LogCount(ex.attempt + 1)>>))
        caught == IF outcome.kind = "json" /\ r.done /\ r.error.kind = "none"
                  THEN <<LogLine("info", "extraction success fields=",
                                 <<LogKeys({outcome.payload.pairs[i].k :
                                               i \in DOMAIN outcome.payload.pairs})>>)>>
                  ELSE IF outcome.kind = "json" /\ r.error.kind = "SchemaValidationError"
                  THEN <<LogLine("error", "schema_error code= field= msg=",
                                 <<LogName(r.error.code), LogField(r.error.field)>>
                                 \o schema_message_values(outcome.payload, r.error.code,
                                                          r.error.field))>>
                  ELSE IF outcome.kind = "JSONDecodeError"
                  THEN <<LogLine("warning", "json_parse_error attempt=",
                                 <<LogCount(ex.attempt + 1)>>)>>
                  ELSE <<LogLine("error", "extraction_error attempt= msg=",
                                 <<LogCount(ex.attempt + 1)>>)>>
        c == [ex EXCEPT !.calls = ex.calls + 1, !.last = outcome, !.log = tried \o caught]
    IN  /\ ex.pc = "attempt"
        /\ ex.attempt < Len(RETRY_DELAYS) + 1
        /\ ex' = IF ~r.done
                 THEN [c EXCEPT !.attempt = ex.attempt + 1,
                                !.sleeps = Append(ex.sleeps, r.sleep),
                                !.failures = Append(ex.failures, outcome.kind),
                                !.log = Append(c.log, LogLine("info", "retry_delay seconds=",
                                                              <<LogCount(r.sleep)>>))]
                 ELSE IF r.error.kind # "none"
                 THEN ex_fail(c, r.error)
                 ELSE [c EXCEPT !.pc = "returned", !.structured_data = r.data,
                                !.message = ex_with_results(ex.message, r.data, CONFIDENCE)]
        /\ UNCHANGED <<ct, stageVars, ge, sv, vr, restVars>>

\* sqs.send_message of the message with the results added
ExForward(sendFails) ==
    LET forwarding == [ex EXCEPT !.log = Append(ex.log,
                                     LogLine("info", "forwarding keys=",
                                             <<LogKeys(DOMAIN ex.message)>>))]
    IN  /\ ex.pc = "returned"
        /\ ex' = IF sendFails
                 THEN ex_fail(forwarding,
                              [kind |-> "ClientError", code |-> "", field |-> NoField])
                 ELSE [forwarding EXCEPT
                          !.pc = "done", !.sent = Append(ex.sent, ex.message),
                          !.log = forwarding.log
                              \o <<LogLine("info", "forwarded to_queue=validation", <<>>),
                                   LogLine("info", "stage_complete doc_id=",
                                           <<LogName(ex.message.document_id)>>)>>]
        /\ UNCHANGED <<ct, stageVars, ge, sv, vr, restVars>>

NextExtract ==
    \/ \E f \in BOOLEAN : ExDownload(f)
    \/ \E o \in ExOutcomes : ExAttempt(o)
    \/ \E f \in BOOLEAN : ExForward(f)

SpecExtract == InitExtract /\ [][NextExtract]_vars

\* the call of extract_with_gemini has ended
ExEnded == ex.calls > 0 /\ ex.pc # "attempt"

\* C13: the extraction endpoint is called at most 4 times; failed attempt i
\* (i < 3) is followed by a sleep of exactly RETRY_DELAYS[i] (1, 2, 4 in that
\* order); success after k transient failures means k + 1 calls and the first
\* k delays; a failure on the 4th attempt is raised to the caller with no
\* further sleep.
C13_ExtractRetryProtocol ==
    /\ ex.calls <= 4
    /\ Len(ex.sleeps) <= 3
    /\ \A k \in 1..Len(ex.sleeps) : ex.sleeps[k] = <<1, 2, 4>>[k]
    /\ Len(ex.failures) = Len(ex.sleeps)
    /\ ex.pc = "attempt" => ex.calls = Len(ex.sleeps)
    /\ ExEnded => ex.calls = Len(ex.sleeps) + 1
    /\ ex.pc \in {"returned", "done"} =>
          (ex.last.kind = "json" /\ ex.calls = Len(ex.failures) + 1)
    /\ (ex.calls = 4 /\ ex.last.kind \in {"Exception", "JSONDecodeError"}) =>
          (ex.pc = "failed" /\ ex.error.kind = "Exception" /\ ex.sleeps = <<1, 2, 4>>
             /\ ex.sent = <<>>)
    /\ (ex.calls < 4 /\ ex.last.kind \in {"Exception", "JSONDecodeError"}) =>
          ex.pc = "attempt"

\* C13 witness: four failed attempts, the last one raised
C13_Witness ==
    /\ ex.pc = "failed"
    /\ ex.calls = 4
    /\ ex.sleeps = <<1, 2, 4>>
    /\ ex.failures = <<"JSONDecodeError", "Exception", "JSONDecodeError">>
    /\ ex.last.kind = "Exception"

\* C14: when the endpoint's output parses as JSON but fails strict schema
\* validation, extract_with_gemini raises SchemaValidationError after that
\* call, with no sleep and no further call, and the stage forwards nothing.
C14_SchemaErrorNotRetried ==
    /\ (ex.last.kind = "json" /\ ~validate_sow_data_strict(ex.last.payload, "notes").ok) =>
          /\ ex.pc = "failed"
          /\ ex.error.kind = "SchemaValidationError"
          /\ ex.error.code = validate_sow_data_strict(ex.last.payload, "notes").code
          /\ ex.calls = Len(ex.sleeps) + 1
          /\ ex.sent = <<>>
    /\ ex.error.kind = "SchemaValidationError" =>
          (ex.last.kind = "json" /\ ex.pc = "failed" /\ ex.sent = <<>>)
    /\ \A k \in DOMAIN ex.failures : ex.failures[k] # "json"

\* C14 witness: a schema violation on the second attempt, after one
\* transient failure
C14_Witness ==
    /\ ex.pc = "failed"
    /\ ex.error.kind = "SchemaValidationError"
    /\ ex.error.code = "VAL_SCHEMA_EXTRA"
    /\ ex.calls = 2
    /\ ex.sleeps = <<1>>


\* the extraction ended on a SchemaValidationError of the last payload
ExSchemaFailed == ex.pc = "failed" /\ ex.error.kind = "SchemaValidationError"

\* the lines the stage logs about the failure
ExFailureLines ==
    {i \in DOMAIN ex.log :
        ex.log[i].text \in {"schema_error code= field= msg=",
                            "error stage=extract-structured-data msg="}}

\* C28: when strict schema validation of the extraction output fails, the
\* lines the stage logs about the failure hold only the error code and the
\* field path: the offending value of the payload is never in the log.
C28_SchemaFailureLogsNoValue ==
    ExSchemaFailed =>
        \A i \in ExFailureLines : \A j \in DOMAIN ex.log[i].args :
            /\ ex.log[i].args[j] \in {LogName(ex.error.code), LogField(ex.error.field)}
            /\ ex.log[i].args[j] # ValueAt(ex.last.payload, ex.error.field)

(***************************************************************************)
(* validate_structured_data over a universe of structured data             *)
(***************************************************************************)
MaxRates == 2

D_2025_01_01 == JStr(<<"2", "0", "2", "5", "-", "0", "1", "-", "0", "1">>)
D_2024_06_30 == JStr(<<"2", "0", "2", "4", "-", "0", "6", "-", "3", "0">>)
D_2025_12_31 == JStr(<<"2", "0", "2", "5", "-", "1", "2", "-", "3", "1">>)
D_2030_01_01 == JStr(<<"2", "0", "3", "0", "-", "0", "1", "-", "0", "1">>)
D_2025_02_30 == JStr(<<"2", "0", "2", "5", "-", "0", "2", "-", "3", "0">>)

\* date.today() at the call
Todays == {Ordinal(2025, 6, 1), Ordinal(2031, 1, 1)}

RateItem(rate) == JObj(<<[k |-> "role", v |-> JStr(<<"D", "e", "v">>)], [k |-> "rate", v |-> rate]>>)
RateItems == {RateItem(JNum(500)), RateItem(JNum(0)), RateItem(JNum(1500)), RateItem(JNum(100))}

RECURSIVE SeqsUpTo(_, _)
SeqsUpTo(S, n) ==
    IF n = 0 THEN {<<>>}
    ELSE LET shorter == SeqsUpTo(S, n - 1)
         IN  shorter \cup {Append(q, x) : q \in {r \in shorter : Len(r) = n - 1}, x \in S}

RuleFields == <<"client_name", "start_date", "end_date", "contract_value", "day_rates">>

RuleCands(f) ==
    IF f = "client_name" THEN {Absent, JStr(<<" ">>), JStr(<<"A", "c", "m", "e">>)}
    ELSE IF f = "start_date" THEN {Absent, D_2025_01_01, JStr(<<"b", "a", "d">>), JNum(123)}
    ELSE IF f = "end_date"
    THEN {JNull, D_2024_06_30, D_2025_12_31, D_2030_01_01, D_2025_02_30}
    ELSE IF f = "contract_value"
    THEN {Absent, JNum(0), JNum(50000), JNum(20000000), JStr(<<"x">>)}
    ELSE {JArr(q) : q \in SeqsUpTo(RateItems, MaxRates)}
             \cup {Absent, JNull, JStr(<<"a", "b">>),
                   JArr(<<RateItem(JNull)>>),
                   JArr(<<JObj(<<>>)>>),
                   JArr(<<JStr(<<"s">>)>>)}

RuleData ==
    {mk_dict([client_name |-> c, start_date |-> sd, end_date |-> ed, contract_value |-> cv,
              day_rates |-> dr], RuleFields) :
        c \in RuleCands("client_name"), sd \in RuleCands("start_date"),
        ed \in RuleCands("end_date"), cv \in RuleCands("contract_value"),
        dr \in RuleCands("day_rates")}

InitRules ==
    /\ ct = ctIdle
    /\ stageUnused
    /\ ge = geIdle
    /\ sv = svIdle
    /\ ex = exIdle
    /\ restIdle
    /\ \E data \in RuleData, today \in Todays :
           vr = [vrIdle EXCEPT !.pc = "loop", !.data = data, !.today = today]

\* violation.to_dict()
to_dict(violation) ==
    [code |-> violation.code, message |-> violation.message, args |-> violation.args,
     field |-> violation.field, severity |-> violation.severity]

\* one turn of "for rule in VALIDATION_RULES" in which rule.validate returns
VrEvaluate ==
    LET rule == VALIDATION_RULES[vr.idx + 1]
        r == rule_validate(rule, vr.data, vr.today)
    IN  /\ vr.pc = "loop"
        /\ vr.idx < Len(VALIDATION_RULES)
        /\ ~r.raised
        /\ vr' = [vr EXCEPT !.idx = vr.idx + 1,
                            !.evaluated = Append(vr.evaluated, vr.idx + 1),
                            !.found = IF r.hit
                                      THEN Append(vr.found, [rule |-> vr.idx + 1, v |-> to_dict(r.v)])
                                      ELSE vr.found,
                            !.lists = IF r.hit THEN place_violation(vr.lists, to_dict(r.v))
                                      ELSE vr.lists]
        /\ UNCHANGED <<ct, stageVars, ge, sv, ex, restVars>>

\* a turn in which rule.validate raises: nothing catches it
VrRaise ==
    LET rule == VALIDATION_RULES[vr.idx + 1]
        r == rule_validate(rule, vr.data, vr.today)
    IN  /\ vr.pc = "loop"
        /\ vr.idx < Len(VALIDATION_RULES)
        /\ r.raised
        /\ vr' = [vr EXCEPT !.pc = "raised",
                            !.evaluated = Append(vr.evaluated, vr.idx + 1),
                            !.raised = r.v.code]
        /\ UNCHANGED <<ct, stageVars, ge, sv, ex, restVars>>

\* the loop is over: validation_passed = len(errors) == 0; return
VrReturn ==
    /\ vr.pc = "loop"
    /\ vr.idx = Len(VALIDATION_RULES)
    /\ vr' = [vr EXCEPT !.pc = "returned",
                        !.validation_passed = (Len(vr.lists.errors) = 0)]
    /\ UNCHANGED <<ct, stageVars, ge, sv, ex, restVars>>

NextRules == VrEvaluate \/ VrRaise \/ VrReturn

SpecRules == InitRules /\ [][NextRules]_vars


(***************************************************************************)
(* Rule engine properties                                                  *)
(***************************************************************************)
\* what the rules of the table up to position n return on the data, in table
\* order
RECURSIVE ViolationsUpTo(_, _, _)
ViolationsUpTo(data, today, n) ==
    IF n = 0 THEN <<>>
    ELSE LET r == rule_validate(VALIDATION_RULES[n], data, today)
             before == ViolationsUpTo(data, today, n - 1)
         IN  IF r.hit THEN Append(before, [rule |-> n, v |-> to_dict(r.v)]) ELSE before

OfSeverity(found, severity) ==
    LET kept == SelectSeq(found, LAMBDA x : x.v.severity = severity)
    IN  [i \in 1..Len(kept) |-> kept[i].v]

\* The loop of validate_structured_data: in every call the rules are evaluated one
\* after the other in table order, none skipped and none repeated, whatever
\* violations the earlier rules returned: the violations collected so far are
\* those of every rule evaluated so far; the call returns only after all the
\* rules of VALIDATION_RULES were evaluated; errors holds exactly the
\* returned violations of severity error and warnings the others, each in
\* table order; and validation_passed is true iff errors is empty
C20_AllRulesPartitioned ==
    /\ vr.pc # "unused" =>
        /\ vr.evaluated = [i \in 1..Len(vr.evaluated) |-> i]
        /\ Len(vr.evaluated) = vr.idx + (IF vr.pc = "raised" THEN 1 ELSE 0)
        /\ vr.found = ViolationsUpTo(vr.data, vr.today, vr.idx)
        /\ vr.lists.errors = OfSeverity(vr.found, "error")
        /\ vr.lists.warnings = OfSeverity(vr.found, "warning")
        /\ \A i \in DOMAIN vr.lists.warnings : vr.lists.warnings[i].severity = "warning"
        /\ Len(vr.lists.errors) + Len(vr.lists.warnings) = Len(vr.found)
    /\ vr.pc = "returned" =>
        /\ Len(vr.evaluated) = Len(VALIDATION_RULES)
        /\ vr.validation_passed <=> vr.lists.errors = <<>>

\* a call that returned after the first rule found a violation: later rules
\* added a second error and warnings behind it
C20_Witness ==
    /\ vr.pc = "returned"
    /\ Len(vr.lists.errors) >= 2
    /\ vr.lists.errors[1].code = "VAL_CLIENT_MISSING"
    /\ vr.lists.errors[Len(vr.lists.errors)].code = "VAL_RATE_INVALID"
    /\ Len(vr.lists.warnings) >= 2
    /\ ~vr.validation_passed

\* the fields the rules read are each missing, null or of the type the schema
\* declares
FieldsTypedOrMissing(data) ==
    /\ dict_get(data, "client_name").t \in {"null", "string"}
    /\ dict_get(data, "start_date").t \in {"null", "string"}
    /\ dict_get(data, "end_date").t \in {"null", "string"}
    /\ dict_get(data, "contract_value").t \in {"null", "number"}
    /\ LET day_rates == dict_get(data, "day_rates")
       IN  \/ day_rates.t = "null"
           \/ /\ day_rates.t = "array"
              /\ \A i \in DOMAIN day_rates.items :
                     /\ day_rates.items[i].t = "object"
                     /\ dict_get(day_rates.items[i], "rate").t \in {"null", "number"}

DateIsMissing(data, f) == ~truthy(dict_get(data, f))
DateIsMalformed(data, f) ==
    /\ dict_get(data, f).t = "string"
    /\ truthy(dict_get(data, f))
    /\ fromisoformat(dict_get(data, f)).exc = "ValueError"

\* the kinds of defect the claim lists as failing validation, read off the
\* data: a day rate is the rate an item holds
ErrorCause(data) ==
    \/ LET client_name == dict_get(data, "client_name")
       IN  client_name.t = "null" \/ (client_name.t = "string" /\ strip_is_empty(client_name.s))
    \/ \E f \in {"start_date", "end_date"} : DateIsMissing(data, f) \/ DateIsMalformed(data, f)
    \/ /\ fromisoformat(dict_get(data, "start_date")).exc = "none"
       /\ fromisoformat(dict_get(data, "end_date")).exc = "none"
       /\ fromisoformat(dict_get(data, "end_date")).ord
              <= fromisoformat(dict_get(data, "start_date")).ord
    \/ /\ dict_get(data, "contract_value").t = "number"
       /\ dict_get(data, "contract_value").n <= 0
    \/ LET day_rates == dict_get(data, "day_rates")
       IN  /\ day_rates.t = "array"
           /\ \E i \in DOMAIN day_rates.items :
                  /\ day_rates.items[i].t = "object"
                  /\ Has(day_rates.items[i], "rate")
                  /\ dict_get(day_rates.items[i], "rate").t = "number"
                  /\ dict_get(day_rates.items[i], "rate").n <= 0

WarningOnlyCodes ==
    {"VAL_RATE_HIGH", "VAL_RATE_LOW", "VAL_VALUE_HIGH", "VAL_VALUE_MISSING", "VAL_DATE_PAST",
     "VAL_DATE_LONG"}

VrEnded == vr.pc \in {"returned", "raised"}

\* C21: on structured data whose fields are each missing, null or of the
\* declared type, validate_structured_data gives a verdict; rate high, rate
\* low, value high, value missing, date past and long duration are only ever
\* warnings; and validation fails iff the data has a missing client name, a
\* missing or malformed date, an end date not after the start date, a
\* contract value <= 0 or a day rate <= 0
C21_SeverityClassification ==
    (VrEnded /\ FieldsTypedOrMissing(vr.data)) =>
        /\ vr.pc = "returned"
        /\ \A i \in DOMAIN vr.found :
               vr.found[i].v.code \in WarningOnlyCodes =>
                   /\ vr.found[i].v.severity = "warning"
                   /\ \E j \in DOMAIN vr.lists.warnings : vr.lists.warnings[j] = vr.found[i].v
        /\ \A i \in DOMAIN vr.lists.errors : vr.lists.errors[i].code \notin WarningOnlyCodes
        /\ ~vr.validation_passed <=> ErrorCause(vr.data)


CodesOf(violations) == [i \in DOMAIN violations |-> violations[i].code]

\* the error codes and the warning codes of an evaluation of the data on the
\* day today
CodesAt(data, today) ==
    LET found == ViolationsUpTo(data, today, Len(VALIDATION_RULES))
    IN  [errors |-> CodesOf(OfSeverity(found, "error")),
         warnings |-> CodesOf(OfSeverity(found, "warning"))]

\* C22: the result of validate_structured_data depends on the structured
\* data alone: the codes a call returns are those of an evaluation of the
\* same data in any other state of the environment (any other day), and no
\* step of a call changes the data or any state outside the call
C22_DeterministicAndPure ==
    [][/\ vr'.pc = "returned" =>
              \A today \in Todays :
                  CodesAt(vr'.data, today)
                      = [errors |-> CodesOf(vr'.lists.errors),
                         warnings |-> CodesOf(vr'.lists.warnings)]
       /\ vr'.data = vr.data
       /\ UNCHANGED <<ct, stageVars, ge, sv, ex, restVars>>]_vars


AbsenceCodes == {"VAL_CLIENT_MISSING", "VAL_DATE_MISSING", "VAL_VALUE_MISSING"}

\* the violation was returned for an input that is missing or null: a top
\* level field the rule names, or the rate of the item the violation points at
ReportedOnMissing(data, violation) ==
    \/ /\ Len(violation.field) = 1
       /\ violation.field[1].name \in {"client_name", "start_date", "end_date", "contract_value"}
       /\ dict_get(data, violation.field[1].name).t = "null"
    \/ /\ violation.field = FieldName("start_date,end_date")
       /\ \E f \in {"start_date", "end_date"} : dict_get(data, f).t = "null"
    \/ /\ Len(violation.field) = 2
       /\ violation.field[1].name = "day_rates"
       /\ LET day_rates == dict_get(data, "day_rates")
              idx == violation.field[1].idx
          IN  \/ day_rates.t # "array"
              \/ dict_get(day_rates.items[idx + 1], "rate").t = "null"

\* C23: on structured data in which any of client_name, start_date,
\* end_date, contract_value, day_rates and the rate of a day_rates item is
\* missing or null (and the others are of the declared type), the call
\* returns a result, no rule raises, and a violation returned for a missing
\* or null input is one of the reports of absence
C23_RulesTolerateMissing ==
    (VrEnded /\ FieldsTypedOrMissing(vr.data)) =>
        /\ vr.pc = "returned"
        /\ vr.raised = "none"
        /\ \A i \in DOMAIN vr.found :
               ReportedOnMissing(vr.data, vr.found[i].v) => vr.found[i].v.code \in AbsenceCodes


\* C20: every call of validate_structured_data on structured data whose
\* fields are each missing, null or of the declared type evaluates every rule
\* of VALIDATION_RULES exactly once, in table order, whatever the earlier
\* rules returned, and returns errors and warnings partitioned by severity in
\* table order with validation_passed true iff errors is empty
C20_EveryRuleEvaluatedOnce ==
    /\ C20_AllRulesPartitioned
    /\ (VrEnded /\ FieldsTypedOrMissing(vr.data)) =>
           /\ vr.pc = "returned"
           /\ vr.evaluated = [i \in 1..Len(VALIDATION_RULES) |-> i]


(***************************************************************************)
(* validate_data/handler.py                                                *)
(***************************************************************************)
\* an f-string: its fixed text and the values formatted into it
Text(text, args) == [text |-> text, args |-> args]

\* what a validate_* function comes to: its two lists, or an exception
Checked(errors, warnings) == [raised |-> "none", errors |-> errors, warnings |-> warnings]
CheckRaises(exc) == [raised |-> exc, errors |-> <<>>, warnings |-> <<>>]

validate_contract_value(contract_value) ==
    IF contract_value.t = "null"
    THEN Checked(<<>>, <<Text("Contract value not specified", <<>>)>>)
    ELSE IF ~is_comparable(contract_value) THEN CheckRaises("TypeError")
    ELSE Checked(IF num_of(contract_value) <= 0
                 THEN <<Text("Invalid contract value", <<contract_value>>)>> ELSE <<>>,
                 IF num_of(contract_value) > MAX_CONTRACT_VALUE
                 THEN <<Text("Very large contract value", <<contract_value>>)>> ELSE <<>>)

\* the text of a ValueError for a day the month does not have names no value
validate_dates(start_date, end_date, today) ==
    LET start == fromisoformat(start_date)
        end == fromisoformat(end_date)
    IN  IF ~truthy(start_date) THEN Checked(<<Text("Missing start date", <<>>)>>, <<>>)
        ELSE IF start.exc = "TypeError" THEN CheckRaises("TypeError")
        ELSE IF start.exc = "ValueError"
        THEN Checked(<<Text("Invalid date format", <<>>)>>, <<>>)
        ELSE IF ~truthy(end_date) THEN Checked(<<Text("Missing end date", <<>>)>>, <<>>)
        ELSE IF end.exc = "TypeError" THEN CheckRaises("TypeError")
        ELSE IF end.exc = "ValueError"
        THEN Checked(<<Text("Invalid date format", <<>>)>>, <<>>)
        ELSE Checked(
                 IF end.ord <= start.ord
                 THEN <<Text("End date must be after start date", <<end_date, start_date>>)>>
                 ELSE <<>>,
                 (IF end.ord < today
                  THEN <<Text("Contract has already ended", <<end_date>>)>> ELSE <<>>)
                 \o (IF end.ord - start.ord > 365 * 3
                     THEN <<Text("Contract duration is very long",
                                 <<JNum(end.ord - start.ord)>>)>>
                     ELSE <<>>))

\* the loop of validate_day_rates from item i on, with the lists so far
RECURSIVE validate_day_rates_loop(_, _, _)
validate_day_rates_loop(items, i, acc) ==
    IF i > Len(items) THEN acc
    ELSE LET rate_info == items[i]
             role == dict_get_default(rate_info, "role", JStr(<<"Unknown">>))
             rate == dict_get_default(rate_info, "rate", JNum(0))
         IN  IF rate_info.t # "object" THEN CheckRaises("AttributeError")
             ELSE IF ~is_comparable(rate) THEN CheckRaises("TypeError")
             ELSE validate_day_rates_loop(items, i + 1,
                      Checked(acc.errors
                                  \o (IF num_of(rate) <= 0
                                      THEN <<Text("Invalid day rate for", <<role, rate>>)>>
                                      ELSE <<>>),
                              acc.warnings
                                  \o (IF num_of(rate) > MAX_DAY_RATE
                                      THEN <<Text("Day rate very high for", <<role, rate>>)>>
                                      ELSE <<>>)
                                  \o (IF num_of(rate) < MIN_DAY_RATE
                                      THEN <<Text("Day rate very low for", <<role, rate>>)>>
                                      ELSE <<>>)))

validate_day_rates(day_rates) ==
    IF ~iterates(day_rates) THEN CheckRaises("TypeError")
    ELSE validate_day_rates_loop(iter_items(day_rates), 1, Checked(<<>>, <<>>))

\* steps 2 to 7 of the try block: the required key, then the four checks in
\* the order client name, contract value, dates, day rates
vd_validate(message, today) ==
    LET structured_data == dict_get_default(message, "structured_data", JObj(<<>>))
        value == validate_contract_value(dict_get(structured_data, "contract_value"))
        dates == validate_dates(dict_get(structured_data, "start_date"),
                                dict_get(structured_data, "end_date"), today)
        rates == validate_day_rates(dict_get_default(structured_data, "day_rates", JArr(<<>>)))
    IN  IF ~Has(message, "document_id") THEN CheckRaises("KeyError")
        ELSE IF structured_data.t # "object" THEN CheckRaises("AttributeError")
        ELSE IF value.raised # "none" THEN value
        ELSE IF dates.raised # "none" THEN dates
        ELSE IF rates.raised # "none" THEN rates
        ELSE Checked((IF ~truthy(dict_get(structured_data, "client_name"))
                      THEN <<Text("Missing client name", <<>>)>> ELSE <<>>)
                         \o value.errors \o dates.errors \o rates.errors,
                     value.warnings \o dates.warnings \o rates.warnings)

\* the message with the results of step 8 added, as json.dumps writes it
vd_outgoing(v) ==
    [message |-> v.message, validation_passed |-> v.validation_passed,
     validation_errors |-> v.all_errors, validation_warnings |-> v.all_warnings]

\* the entry the except block appends to message['errors']
vd_error_entry(exc) == [stage |-> "validate-data", error |-> exc, timestamp |-> utcnow]

\* message['errors'] as the message came in: "if 'errors' not in message:
\* message['errors'] = []"
vd_errors(message) ==
    IF Has(message, "errors") THEN dict_get(message, "errors").items ELSE <<>>


\* structured data as the extraction stage can hand it over, and some it
\* cannot (a field of another type)
SD(client_name, start_date, end_date, contract_value, day_rates) ==
    mk_dict([client_name |-> client_name, start_date |-> start_date, end_date |-> end_date,
             contract_value |-> contract_value, day_rates |-> day_rates], RuleFields)

Acme == JStr(<<"A", "c", "m", "e">>)
Beta == JStr(<<"B", "e", "t", "a">>)

VdData ==
    {SD(Acme, D_2025_01_01, D_2025_12_31, JNum(50000), JArr(<<RateItem(JNum(500))>>)),
     SD(Beta, D_2025_01_01, D_2025_12_31, JNum(60000), JArr(<<RateItem(JNum(600))>>)),
     SD(Acme, D_2025_01_01, D_2030_01_01, JNum(20000000),
        JArr(<<RateItem(JNum(1500)), RateItem(JNum(100))>>)),
     SD(Absent, D_2025_01_01, D_2024_06_30, JNum(0), JArr(<<RateItem(JNum(0))>>)),
     SD(JStr(<<" ">>), D_2025_01_01, D_2025_12_31, Absent, Absent),
     SD(Acme, Absent, D_2025_12_31, JNum(50000), JArr(<<>>)),
     SD(Acme, D_2025_01_01, D_2025_02_30, JNum(50000), JArr(<<JObj(<<>>)>>)),
     SD(Acme, D_2025_01_01, D_2025_12_31, JNum(50000), JNull),
     SD(Acme, D_2025_01_01, D_2025_12_31, JNum(50000), JArr(<<RateItem(JNull)>>)),
     SD(Acme, JNum(123), D_2025_12_31, JNum(50000), JArr(<<>>)),
     SD(Acme, D_2025_01_01, D_2025_12_31, JStr(<<"x">>), JArr(<<>>))}

DocId == JStr(<<"d", "1">>)

\* the messages delivered to validate_data: with and without document_id,
\* with structured_data, without it, and with null in its place
VdMessages ==
    {JObj(<<[k |-> "document_id", v |-> DocId], [k |-> "structured_data", v |-> sd]>>) :
        sd \in VdData \cup {JNull}}
    \cup {JObj(<<[k |-> "structured_data", v |-> sd]>>) : sd \in VdData}
    \cup {JObj(<<[k |-> "document_id", v |-> DocId]>>)}
    \cup {JObj(<<[k |-> "errors", v |-> JArr(<<EarlierError>>)]>>)}
    \cup {JObj(<<[k |-> "document_id", v |-> DocId],
                 [k |-> "custom_field", v |-> JStr(<<"c">>)],
                 [k |-> "structured_data",
                  v |-> SD(Acme, D_2025_01_01, D_2025_12_31, JNum(500000), JArr(<<>>))]>>)}

\* NEXT_QUEUE_URL = os.environ.get('NEXT_QUEUE_URL'): a url, or None
QueueUrls == {"https://sqs/save", ""}

InitValidate ==
    /\ ct = ctIdle
    /\ stageUnused
    /\ ge = geIdle
    /\ sv = svIdle
    /\ ex = exIdle
    /\ vr = vrIdle
    /\ sm = smIdle
    /\ lastIdle
    /\ \E m \in VdMessages, url \in QueueUrls, today \in Todays :
           vd = [vdIdle EXCEPT !.pc = "delivered", !.message = m, !.NEXT_QUEUE_URL = url,
                               !.today = today]

\* step 1: json.loads(record['body']) and the two log lines
VdReceive ==
    /\ vd.pc = "delivered"
    /\ vd' = [vd EXCEPT !.pc = "try",
                        !.log = vd.log \o <<LogLine("info", "RECEIVED MESSAGE:", <<>>),
                                            LogLine("info", "json.dumps(message)",
                                                    <<vd.message>>)>>]
    /\ UNCHANGED <<ct, stageVars, ge, sv, ex, vr, sm, et, bt>>

\* steps 2 to 9: the checks, the results added to the message, the log lines
VdValidate ==
    LET r == vd_validate(vd.message, vd.today)
        doc_id == dict_get(vd.message, "document_id")
        done == [vd EXCEPT !.pc = "send",
                           !.all_errors = r.errors,
                           !.all_warnings = r.warnings,
                           !.validation_passed = (Len(r.errors) = 0)]
    IN  /\ vd.pc = "try"
        /\ vd' = IF r.raised # "none"
                 THEN [vd EXCEPT !.pc = "except", !.raised = r.raised,
                                 !.log = IF r.raised = "KeyError" THEN vd.log
                                         ELSE Append(vd.log,
                                                  LogLine("info", "Starting validation for",
                                                          <<doc_id>>))]
                 ELSE [done EXCEPT !.log =
                          vd.log
                          \o <<LogLine("info", "Starting validation for", <<doc_id>>),
                               LogLine("info", "Validation complete", <<>>),
                               LogLine("info", "Errors:", <<JNum(Len(r.errors))>>),
                               LogLine("info", "Warnings:", <<JNum(Len(r.warnings))>>)>>
                          \o (IF Len(r.errors) > 0
                              THEN <<LogLine("warning", "Validation errors:", r.errors)>>
                              ELSE <<>>)
                          \o (IF Len(r.warnings) > 0
                              THEN <<LogLine("info", "Validation warnings:", r.warnings)>>
                              ELSE <<>>)
                          \o <<LogLine("info", "FORWARDING MESSAGE:", <<>>),
                               LogLine("info", "json.dumps(message)", <<vd_outgoing(done)>>)>>]
        /\ UNCHANGED <<ct, stageVars, ge, sv, ex, vr, sm, et, bt>>

\* step 10: sqs.send_message if NEXT_QUEUE_URL is set, which can raise; then
\* the record is complete and the handler returns statusCode 200
VdForward(sendFails) ==
    /\ vd.pc = "send"
    /\ vd' = IF vd.NEXT_QUEUE_URL = ""
             THEN [vd EXCEPT !.pc = "done", !.statusCode = 200,
                             !.log = Append(vd.log,
                                        LogLine("info", "STAGE COMPLETE for",
                                                <<dict_get(vd.message, "document_id")>>))]
             ELSE IF sendFails
             THEN [vd EXCEPT !.pc = "except", !.raised = "ClientError"]
             ELSE [vd EXCEPT !.pc = "done", !.statusCode = 200,
                             !.sent = Append(vd.sent, vd_outgoing(vd)),
                             !.log = vd.log
                                 \o <<LogLine("info", "Message forwarded to save queue", <<>>),
                                      LogLine("info", "STAGE COMPLETE for",
                                              <<dict_get(vd.message, "document_id")>>)>>]
    /\ UNCHANGED <<ct, stageVars, ge, sv, ex, vr, sm, et, bt>>

\* the except block: two log lines, the entry appended to message['errors'],
\* and the exception raised again
VdFail ==
    /\ vd.pc = "except"
    /\ vd' = [vd EXCEPT !.pc = "failed",
                        !.appended = Append(vd_errors(vd.message),
                                            vd_error_entry(vd.raised)),
                        !.log = vd.log
                            \o <<LogLine("error", "ERROR:", <<JStr(<<vd.raised>>)>>),
                                 LogLine("error", "Message was: json.dumps(message)",
                                         <<IF vd.raised = "ClientError"
                                           THEN vd_outgoing(vd)
                                           ELSE [message |-> vd.message]>>)>>]
    /\ UNCHANGED <<ct, stageVars, ge, sv, ex, vr, sm, et, bt>>

NextValidate ==
    \/ VdReceive
    \/ VdValidate
    \/ \E sendFails \in BOOLEAN : VdForward(sendFails)
    \/ VdFail

SpecValidate == InitValidate /\ [][NextValidate]_vars


(***************************************************************************)
(* validate_data properties                                                *)
(***************************************************************************)
VdEnded == vd.pc \in {"done", "failed"}

\* C24: for every delivered message that carries a document_id, once the
\* stage has ended (and the queue did not refuse the message) exactly one
\* message was sent to the next queue, it holds validation_passed,
\* validation_errors and validation_warnings, and its validation_passed is
\* true iff its validation_errors is empty, whether validation passed or not
C24_ResultsAlwaysForwarded ==
    (VdEnded /\ Has(vd.message, "document_id") /\ vd.raised # "ClientError") =>
        /\ Len(vd.sent) = 1
        /\ vd.sent[1].validation_passed <=> vd.sent[1].validation_errors = <<>>
        /\ vd.sent[1].validation_errors = vd.all_errors
        /\ vd.sent[1].validation_warnings = vd.all_warnings


\* the codes of the rule table, all of the form VAL_...
RuleCodes == {VALIDATION_RULES[i].code : i \in DOMAIN VALIDATION_RULES}

\* a forwarded violation in the format of the rule engine
IsViolationRecord(e, severity) ==
    /\ DOMAIN e = {"code", "message", "args", "field", "severity"}
    /\ e.code \in RuleCodes
    /\ e.message # ""
    /\ e.field # NoField
    /\ e.severity = severity

\* C25: what validate_data forwards is the result of validate_structured_data
\* on the message's structured_data: the same errors, the same warnings and
\* the same verdict, so every forwarded error is a record with a VAL_ code,
\* a message, a field and severity error, and every forwarded warning such a
\* record with severity warning
C25_StageAppliesRuleEngine ==
    (vd.pc = "done" /\ Len(vd.sent) = 1) =>
        LET structured_data == dict_get_default(vd.message, "structured_data", JObj(<<>>))
            found == ViolationsUpTo(structured_data, vd.today, Len(VALIDATION_RULES))
            out == vd.sent[1]
        IN  /\ \A i \in DOMAIN out.validation_errors :
                   IsViolationRecord(out.validation_errors[i], "error")
            /\ \A i \in DOMAIN out.validation_warnings :
                   IsViolationRecord(out.validation_warnings[i], "warning")
            /\ out.validation_passed <=> OfSeverity(found, "error") = <<>>
            /\ Len(out.validation_errors) = Len(OfSeverity(found, "error"))
            /\ Len(out.validation_warnings) = Len(OfSeverity(found, "warning"))
            /\ \A i \in DOMAIN out.validation_errors :
                   out.validation_errors[i] = OfSeverity(found, "error")[i]
            /\ \A i \in DOMAIN out.validation_warnings :
                   out.validation_warnings[i] = OfSeverity(found, "warning")[i]


\* C26: with NEXT_QUEUE_URL absent the validate_data stage does not get as
\* far as processing a record (loading it fails), so no record is reported
\* successful without having been forwarded
C26_MissingQueueIsFatal ==
    /\ vd.NEXT_QUEUE_URL = "" => (vd.pc \in {"unused", "delivered"} /\ vd.log = <<>>)
    /\ vd.statusCode = 200 => Len(vd.sent) = 1


\* what a log line of validate_data may name: the document id, a count, the
\* name of an exception
VdSafeToLog(v) ==
    {dict_get(v.message, "document_id"), JNum(Len(v.all_errors)), JNum(Len(v.all_warnings)),
     JStr(<<v.raised>>)}

\* C27: the log of validate_data names nothing of the envelope but ids,
\* counts and codes, on the success path and on the failure path, so that
\* messages that differ only in the values inside structured_data leave the
\* same log
C27_LogsHoldNoValues ==
    \A i \in DOMAIN vd.log :
        \A j \in DOMAIN vd.log[i].args : vd.log[i].args[j] \in VdSafeToLog(vd)


(***************************************************************************)
(* The except block of the stages: one record delivered to chunk_and_embed, *)
(* to extract_structured_data or to validate_data, with messages that lack *)
(* a required key or carry an errors list.                                 *)
(***************************************************************************)
FailMessages ==
    {baseMessage, [document_id |-> "d1"], [text_s3_key |-> "t1"],
     [document_id |-> "d1", errors |-> <<EarlierError>>],
     [document_id |-> "d1", text_s3_key |-> "t1", errors |-> <<EarlierError>>]}

InitFailure ==
    \/ /\ ct = ctIdle
       /\ fnIdle
       /\ config = [CHUNK_SIZE |-> 1, CHUNK_OVERLAP |-> 0, EMBED_SUCCESS_MIN_RATIO |-> 95]
       /\ queue = FailMessages
       /\ \E text \in TextsUpTo({"a"}, StageTextLen) :
             s3 = [emptyStore EXCEPT !.texts["b1"]["t1"] = TextObject(text)]
       /\ sqs = {}
       /\ inv = [i \in SeqInvs |-> idleInv]
       /\ runs = 0
    \/ InitExtract
    \/ InitValidate

NextFailure == Next \/ NextExtract \/ NextValidate

SpecFailure == InitFailure /\ [][NextFailure]_vars

\* message['errors'] of an envelope, [] when the key is absent
ErrorsOf(message) == IF "errors" \in DOMAIN message THEN message.errors ELSE <<>>

\* after is before with one entry of the stage added at the end of errors
Recorded(before, after, stage) ==
    /\ DOMAIN after = DOMAIN before \cup {"errors"}
    /\ \A k \in DOMAIN before \ {"errors"} : after[k] = before[k]
    /\ Len(after.errors) = Len(ErrorsOf(before)) + 1
    /\ SubSeq(after.errors, 1, Len(ErrorsOf(before))) = ErrorsOf(before)
    /\ DOMAIN after.errors[Len(after.errors)] = {"stage", "error", "timestamp"}
    /\ after.errors[Len(after.errors)].stage = stage

\* this step ends a delivery to chunk_and_embed in its except block
ChunkFailsNow(i) ==
    inv'[i].pc = "failed" /\ (inv[i].pc # "failed" \/ inv'[i].run # inv[i].run)

ChunkFailureStep ==
    \A i \in DOMAIN inv :
        ChunkFailsNow(i) =>
            /\ IF inv'[i].run # inv[i].run
               THEN \E m \in queue : Recorded(m, inv'[i].message, "chunk-and-embed")
               ELSE Recorded(inv[i].message, inv'[i].message, "chunk-and-embed")
            /\ sqs' = sqs
            /\ {e \in sqs' : e.run = inv'[i].run} = {}
            /\ ~({"document_id", "text_s3_key"} \subseteq DOMAIN inv'[i].message) =>
                  /\ s3' = s3
                  /\ inv'[i].seen = "none"
                  /\ ~inv'[i].fetched
                  /\ ~inv'[i].invoked
                  /\ inv'[i].wrote = <<>>

ExFailureStep ==
    (ex.pc # "failed" /\ ex'.pc = "failed") =>
        /\ Recorded(ex.message, ex'.message, "extract-structured-data")
        /\ ex'.sent = <<>>
        /\ ~({"document_id", "text_s3_key"} \subseteq DOMAIN ex'.message) =>
              /\ ex'.calls = 0
              /\ \A j \in DOMAIN ex'.log : ex'.log[j].text # "download_text s3_key="

VdFailureStep ==
    (vd.pc # "failed" /\ vd'.pc = "failed") =>
        /\ vd'.message = vd.message
        /\ Len(vd'.appended) = Len(vd_errors(vd.message)) + 1
        /\ SubSeq(vd'.appended, 1, Len(vd_errors(vd.message))) = vd_errors(vd.message)
        /\ DOMAIN vd'.appended[Len(vd'.appended)] = {"stage", "error", "timestamp"}
        /\ vd'.appended[Len(vd'.appended)].stage = "validate-data"
        /\ vd'.sent = <<>>

ClockReadings == {1762000000 + t : t \in 0..MaxClock}

\* the messages delivered: with document_id, and without it
SmMessages ==
    {[document_id |-> "d1"], [validation_passed |-> TRUE],
     [document_id |-> "d1", validation_passed |-> TRUE]}

\* the answers to update_item: carried out by the table; refused with a
\* ClientError other than the condition's (throttled); no answer, the
\* request carried out or lost
UpdateOutcomes ==
    {[kind |-> "ok", reached |-> TRUE], [kind |-> "ClientError", reached |-> FALSE],
     [kind |-> "ConnectionError", reached |-> TRUE],
     [kind |-> "ConnectionError", reached |-> FALSE]}

InitSave ==
    /\ ct = ctIdle
    /\ stageUnused
    /\ ge = geIdle
    /\ sv = svIdle
    /\ ex = exIdle
    /\ vr = vrIdle
    /\ vd = vdIdle
    /\ lastIdle
    /\ \E url \in QueueUrls, m \in SmMessages :
          sm = [smIdle EXCEPT
                   !.NEXT_QUEUE_URL = url,
                   !.inv = [i \in 1..MaxSaves |->
                               [smInvIdle EXCEPT !.pc = "delivered",
                                                 !.message = IF i = 1 THEN m
                                                             ELSE [document_id |-> "d1"]]]]

\* the except block: the entry appended to message['errors'], re-raise
sm_fail(l, exc) ==
    [l EXCEPT !.pc = "failed", !.raised = exc,
              !.errors = Append(l.errors, [stage |-> "save-metadata", error |-> exc,
                                           timestamp |-> utcnow])]

\* step 2: message['document_id'] and the version read off the clock
SmStart(i, t) ==
    LET l == sm.inv[i]
    IN  /\ l.pc = "delivered"
        /\ sm' = [sm EXCEPT !.inv[i] =
                    IF "document_id" \notin DOMAIN l.message
                    THEN sm_fail(l, "KeyError")
                    ELSE [l EXCEPT !.pc = "put", !.version = str_int(t)]]
        /\ UNCHANGED <<ct, stageVars, ge, sv, ex, vr, vd, et, bt>>

\* step 4: put_item of VERSION#<version> unless it exists
SmPutItem(i, refused) ==
    LET l == sm.inv[i]
    IN  /\ l.pc = "put"
        /\ sm' = IF refused
                 THEN [sm EXCEPT !.inv[i] = sm_fail(l, "ClientError")]
                 ELSE IF version_condition(sm.stored, l.version)
                 THEN [sm EXCEPT !.stored =
                                    [v \in DOMAIN sm.stored \cup {l.version} |->
                                        IF v = l.version
                                        THEN version_item(l.message, l.version)
                                        ELSE sm.stored[v]],
                                 !.inv[i] = [l EXCEPT !.pc = "latest", !.created = TRUE]]
                 ELSE [sm EXCEPT !.inv[i] = [l EXCEPT !.pc = "latest", !.created = FALSE]]
        /\ UNCHANGED <<ct, stageVars, ge, sv, ex, vr, vd, et, bt>>

\* step 5: update_item of the LATEST item under its condition; a
\* ConditionalCheckFailedException and any other ClientError are logged
\* and the invocation goes on; another exception reaches the except block
SmUpdateLatest(i, outcome) ==
    LET l == sm.inv[i]
        holds == latest_condition(sm.latest_version, l.version)
        to == IF outcome.kind = "ok"
              THEN [l EXCEPT !.pc = "forward", !.executed = TRUE,
                             !.latest = IF holds THEN "updated" ELSE "skipped"]
              ELSE IF outcome.kind = "ClientError"
              THEN [l EXCEPT !.pc = "forward", !.latest = "latest_update_failed"]
              ELSE sm_fail([l EXCEPT !.executed = outcome.reached], "ConnectionError")
    IN  /\ l.pc = "latest"
        /\ sm' = [sm EXCEPT !.inv[i] = to,
                            !.latest_version = IF outcome.reached /\ holds
                                               THEN l.version ELSE sm.latest_version]
        /\ UNCHANGED <<ct, stageVars, ge, sv, ex, vr, vd, et, bt>>

\* step 6: the summary sent when NEXT_QUEUE_URL is set
SmForward(i, sendFails) ==
    LET l == sm.inv[i]
    IN  /\ l.pc = "forward"
        /\ sm' = IF sm.NEXT_QUEUE_URL = ""
                 THEN [sm EXCEPT !.inv[i].pc = "done"]
                 ELSE IF sendFails
                 THEN [sm EXCEPT !.inv[i] = sm_fail(l, "SendError")]
                 ELSE [sm EXCEPT !.inv[i].pc = "done",
                                 !.sent = Append(sm.sent,
                                     [document_id |-> l.message.document_id,
                                      version |-> l.version, metadata_saved |-> TRUE,
                                      created |-> l.created])]
        /\ UNCHANGED <<ct, stageVars, ge, sv, ex, vr, vd, et, bt>>

NextSave ==
    \/ \E i \in 1..MaxSaves, t \in ClockReadings : SmStart(i, t)
    \/ \E i \in 1..MaxSaves, f \in BOOLEAN : SmPutItem(i, f)
    \/ \E i \in 1..MaxSaves, o \in UpdateOutcomes : SmUpdateLatest(i, o)
    \/ \E i \in 1..MaxSaves, f \in BOOLEAN : SmForward(i, f)

SpecSave == InitSave /\ [][NextSave]_vars

(***************************************************************************)
(* Properties of the LATEST pointer                                        *)
(***************************************************************************)
\* the number a version string stands for
VersionNumber(v) == DigitsVal(v, 1, Len(v))

\* the versions whose update_item the table carried out
ExecutedVersions == {sm.inv[i].version : i \in {j \in 1..MaxSaves : sm.inv[j].executed}}

SmAllFinished == \A i \in 1..MaxSaves : sm.inv[i].pc \in {"done", "failed"}

\* the pointer moves only from absent, or from an older version to a newer
LatestMovesForward ==
    sm'.latest_version # sm.latest_version =>
        \/ sm.latest_version = NoLatest
        \/ VersionNumber(sm.latest_version) < VersionNumber(sm'.latest_version)

\* once every invocation has ended the pointer is the newest executed version
LatestIsNewest ==
    SmAllFinished =>
        IF ExecutedVersions = {} THEN sm.latest_version = NoLatest
        ELSE /\ sm.latest_version \in ExecutedVersions
             /\ \A v \in ExecutedVersions :
                   VersionNumber(v) <= VersionNumber(sm.latest_version)

\* losing the condition raises nothing: the invocation goes on to step 6 and
\* ends with success unless the send of step 6 fails
LoserCompletes ==
    \A i \in 1..MaxSaves :
        sm.inv[i].latest = "skipped" =>
            /\ sm.inv[i].pc \in {"forward", "done", "failed"}
            /\ sm.inv[i].pc = "failed" =>
                  (sm.inv[i].raised = "SendError" /\ sm.NEXT_QUEUE_URL # "")
            /\ (sm.inv[i].pc = "done" /\ sm.NEXT_QUEUE_URL # "") =>
                  \E k \in DOMAIN sm.sent : sm.sent[k].version = sm.inv[i].version

\* C30: under every interleaving of save invocations for one document the
\* LATEST pointer is set only when it is absent or holds an older version, so
\* it never moves from a newer version to an older one; when all invocations
\* have ended it holds the newest version among the executed pointer
\* updates; and an invocation that loses the condition still succeeds.
C30_LatestPointerRaceProof == [][LatestMovesForward /\ LatestIsNewest' /\ LoserCompletes']_vars

\* C30 witness: two invocations with different versions have ended; the one
\* with the older version ran its update second, lost the condition and
\* ended with success; the pointer holds the newer version
C30_Witness ==
    /\ SmAllFinished
    /\ \E i, j \in 1..MaxSaves :
          /\ sm.inv[i].latest = "updated"
          /\ sm.inv[j].latest = "skipped"
          /\ sm.inv[j].pc = "done"
          /\ VersionNumber(sm.inv[j].version) < VersionNumber(sm.inv[i].version)
          /\ sm.latest_version = sm.inv[i].version


(***************************************************************************)
(* Properties of the version items                                         *)
(***************************************************************************)
\* every item of the table is still there with the same attributes
ItemsKept ==
    \A v \in DOMAIN sm.stored : v \in DOMAIN sm'.stored /\ sm'.stored[v] = sm.stored[v]

\* invocation i runs put_item in this step and its version has an item
PutFindsExisting(i) ==
    /\ sm.inv[i].pc = "put"
    /\ sm'.inv[i].pc # "put"
    /\ sm.inv[i].version \in DOMAIN sm.stored

\* the condition failing is no failure: created = False, on to step 5
ExistingIsSuccess ==
    \A i \in 1..MaxSaves :
        (PutFindsExisting(i) /\ sm'.inv[i].pc # "failed") =>
            /\ sm'.inv[i].pc = "latest"
            /\ ~sm'.inv[i].created
            /\ sm'.inv[i].raised = "none"
            /\ sm'.stored = sm.stored

\* an invocation that ended with success ran its pointer update, and with
\* a queue configured it sent the summary with its created flag
SavedThenForwarded ==
    \A i \in 1..MaxSaves :
        sm.inv[i].pc = "done" =>
            /\ sm.inv[i].latest \in {"updated", "skipped", "latest_update_failed"}
            /\ sm.NEXT_QUEUE_URL # "" =>
                  \E k \in DOMAIN sm.sent :
                      /\ sm.sent[k].version = sm.inv[i].version
                      /\ sm.sent[k].created = sm.inv[i].created

\* C31: version items are create-once: a save whose VERSION#<version> item
\* exists leaves it unchanged, counts as success with created = false and
\* goes on to the pointer update and the summary; no save overwrites or
\* deletes a version item.
C31_VersionsCreateOnce == [][ItemsKept /\ ExistingIsSuccess /\ SavedThenForwarded']_vars

\* C31 witness: two saves of different messages read the same second; the
\* second found the item of the first, ended with success and created =
\* false, and the item is the one of the first
C31_Witness ==
    \E i, j \in 1..MaxSaves :
        /\ i # j
        /\ sm.inv[i].version = sm.inv[j].version
        /\ sm.inv[i].created /\ ~sm.inv[j].created
        /\ sm.inv[j].pc = "done" /\ sm.inv[j].latest = "skipped"
        /\ sm.inv[i].message # sm.inv[j].message
        /\ sm.stored[sm.inv[i].version] = version_item(sm.inv[i].message, sm.inv[i].version)
        /\ sm.NEXT_QUEUE_URL # ""


(***************************************************************************)
(* Specification of the extract_text stage for one record: download the    *)
(* PDF, read its pages, store the text, add the results, forward.          *)
(***************************************************************************)
MaxPages == 2

\* what a page's extract_text() returns
PageTexts == {<<>>, <<"a">>}

\* the pages of the documents read
PdfPages == UNION {[1..n -> PageTexts] : n \in 0..MaxPages}

\* the messages delivered: the upload's fields, fields the stage does not
\* know, a message without s3_key, one without document_id, and one that
\* already carries a key the stage adds
EtMessages ==
    {[document_id |-> "d1", s3_key |-> "uploads/a.pdf"],
     [document_id |-> "d1", s3_bucket |-> "b1", s3_key |-> "uploads/a.pdf",
      timestamp |-> "2025-11-11T00:00:00Z", custom_field |-> "custom_value",
      errors |-> <<>>],
     [document_id |-> "d1", s3_key |-> "uploads/a.pdf", text_s3_key |-> "t1"],
     [document_id |-> "d1", custom_field |-> "custom_value"],
     [s3_key |-> "uploads/a.pdf"]}

\* the keys of "6. ADD results to message"
EtAdded == {"text_extracted", "text_s3_key", "text_length", "page_count"}

\* len(full_text): every page adds "\n--- Page <n> ---\n" and its text
RECURSIVE full_text_len(_, _)
full_text_len(pages, n) ==
    IF n = 0 THEN 0
    ELSE full_text_len(pages, n - 1)
            + Len(<<"\n", "-", "-", "-", " ", "P", "a", "g", "e", " ">>)
            + Len(str_int(n))
            + Len(<<" ", "-", "-", "-", "\n">>)
            + Len(pages[n])

\* text_s3_key = f"text/{doc_id}.txt"
et_text_key(doc_id) == <<"text/", doc_id, ".txt">>

\* step 6 building a new message from the fields the stage knows
et_with_results_known_only(message, pages) ==
    [k \in (DOMAIN message \cap {"document_id", "s3_bucket", "s3_key"}) \cup EtAdded |->
        IF k = "text_extracted" THEN TRUE
        ELSE IF k = "text_s3_key" THEN et_text_key(message.document_id)
        ELSE IF k = "text_length" THEN full_text_len(pages, Len(pages))
        ELSE IF k = "page_count" THEN Len(pages)
        ELSE message[k]]

\* step 6: the four results set on the message, its other keys untouched
et_with_results(message, pages) ==
    [k \in DOMAIN message \cup EtAdded |->
        IF k = "text_extracted" THEN TRUE
        ELSE IF k = "text_s3_key" THEN et_text_key(message.document_id)
        ELSE IF k = "text_length" THEN full_text_len(pages, Len(pages))
        ELSE IF k = "page_count" THEN Len(pages)
        ELSE message[k]]

\* the except block: the entry appended to message['errors'], re-raise
et_fail(e, exc) ==
    [e EXCEPT !.pc = "failed", !.raised = exc,
              !.message = [k \in DOMAIN e.message \cup {"errors"} |->
                              IF k = "errors"
                              THEN Append(Get(e.message, "errors", <<>>),
                                          [stage |-> "extract-text", error |-> exc,
                                           timestamp |-> utcnow])
                              ELSE e.message[k]]]

InitText ==
    /\ ct = ctIdle
    /\ stageUnused
    /\ ge = geIdle
    /\ sv = svIdle
    /\ ex = exIdle
    /\ vr = vrIdle
    /\ vd = vdIdle
    /\ sm = smIdle
    /\ bt = btIdle
    /\ \E m \in EtMessages, url \in QueueUrls :
          et = [etIdle EXCEPT !.pc = "start", !.message = m, !.NEXT_QUEUE_URL = url]

\* steps 2 and 3: the required fields and s3.get_object of the PDF
EtDownload(readFails) ==
    /\ et.pc = "start"
    /\ et' = IF ~({"document_id", "s3_key"} \subseteq DOMAIN et.message)
             THEN et_fail(et, "KeyError")
             ELSE IF readFails THEN et_fail(et, "ClientError")
             ELSE [et EXCEPT !.pc = "read"]
    /\ UNCHANGED <<ct, stageVars, ge, sv, ex, vr, vd, sm, bt>>

\* step 4: PdfReader and extract_text of every page
EtRead(outcome) ==
    /\ et.pc = "read"
    /\ et' = IF outcome.kind = "PdfReadError"
             THEN et_fail(et, "PdfReadError")
             ELSE [et EXCEPT !.pc = "put", !.pages = outcome.pages]
    /\ UNCHANGED <<ct, stageVars, ge, sv, ex, vr, vd, sm, bt>>

\* steps 5 and 6: s3.put_object of the text, then the results added
EtPutText(writeFails) ==
    /\ et.pc = "put"
    /\ et' = IF writeFails
             THEN et_fail(et, "ClientError")
             ELSE [et EXCEPT !.pc = "send",
                             !.wrote = Append(et.wrote, et_text_key(et.message.document_id)),
                             !.message = et_with_results(et.message, et.pages)]
    /\ UNCHANGED <<ct, stageVars, ge, sv, ex, vr, vd, sm, bt>>

\* step 8: sqs.send_message of json.dumps(message) if NEXT_QUEUE_URL is set
EtForward(sendFails) ==
    /\ et.pc = "send"
    /\ et' = IF et.NEXT_QUEUE_URL = ""
             THEN [et EXCEPT !.pc = "done"]
             ELSE IF sendFails
             THEN et_fail(et, "ClientError")
             ELSE [et EXCEPT !.pc = "done", !.sent = Append(et.sent, et.message)]
    /\ UNCHANGED <<ct, stageVars, ge, sv, ex, vr, vd, sm, bt>>

NextText ==
    \/ \E f \in BOOLEAN : EtDownload(f)
    \/ \E o \in {[kind |-> "PdfReadError", pages |-> <<>>]}
                \cup {[kind |-> "pdf", pages |-> q] : q \in PdfPages} : EtRead(o)
    \/ \E f \in BOOLEAN : EtPutText(f)
    \/ \E f \in BOOLEAN : EtForward(f)

SpecText == InitText /\ [][NextText]_vars


(***************************************************************************)
(* The pass-through stages: one record delivered to extract_text, to       *)
(* extract_structured_data or to validate_data.                            *)
(***************************************************************************)
InitPass == InitText \/ InitExtract \/ InitValidate

NextPass == NextText \/ NextExtract \/ NextValidate

SpecPass == InitPass /\ [][NextPass]_vars

\* the keys extract_structured_data adds
ExAdded == {"structured_data", "extraction_confidence"}

\* a step of a stage keeps every key of the message it does not add, with
\* its value; the except block alone appends to errors
KeysKept(before, after, added, failed) ==
    \A k \in DOMAIN before \ added :
        /\ k \in DOMAIN after
        /\ after[k] = before[k] \/ (failed /\ k = "errors")

\* what a stage sends is the message it holds
SendsMessage(sentBefore, sentAfter, message) ==
    sentAfter # sentBefore =>
        /\ Len(sentAfter) = Len(sentBefore) + 1
        /\ sentAfter[Len(sentAfter)] = message

PassThroughStep ==
    /\ KeysKept(et.message, et'.message, EtAdded, et'.pc = "failed")
    /\ SendsMessage(et.sent, et'.sent, et'.message)
    /\ KeysKept(ex.message, ex'.message, ExAdded, ex'.pc = "failed")
    /\ SendsMessage(ex.sent, ex'.sent, ex'.message)
    /\ vd'.message = vd.message
    /\ vd'.sent # vd.sent =>
          /\ Len(vd'.sent) = Len(vd.sent) + 1
          /\ vd'.sent[Len(vd'.sent)].message = vd.message
          /\ DOMAIN vd'.sent[Len(vd'.sent)] =
                {"message", "validation_passed", "validation_errors", "validation_warnings"}

\* C32: extract_text, extract_structured_data and validate_data forward the
\* input envelope with their fields added: every key of the input other than
\* the keys the stage adds is in the forwarded message with its value,
\* fields the stage does not know included.
C32_PassThroughKeepsFields == [][PassThroughStep]_vars

\* C32 witness: extract_text forwarded a message that came with fields it
\* does not know; they are in the forwarded message next to the added ones
C32_Witness ==
    /\ et.pc = "done"
    /\ Len(et.sent) = 1
    /\ "custom_field" \in DOMAIN et.sent[1]
    /\ et.sent[1].custom_field = "custom_value"
    /\ et.sent[1].timestamp = "2025-11-11T00:00:00Z"
    /\ EtAdded \subseteq DOMAIN et.sent[1]


(***************************************************************************)
(* chunk_and_embed under redelivery: the message is delivered again after  *)
(* every failed or interrupted invocation; calls, reads, writes and sends  *)
(* may fail and invocations may be interrupted during the deliveries       *)
(* before the last one, and no longer during delivery number MaxRuns.      *)
(***************************************************************************)
\* the environment may still fail during this delivery
MayFail == runs < MaxRuns

FailChoices == IF MayFail THEN BOOLEAN ELSE {FALSE}

InvokeChoices ==
    IF MayFail THEN InvokeOutcomes
    ELSE {[kind |-> "response", embedding |-> "vector", code |-> 200]}

\* texts with at least one chunk under the configuration
ChunkedTexts(chunk_size, overlap) ==
    {t \in TextsUpTo({"a", " "}, StageTextLen) :
        /\ ~chunk_text(t, chunk_size, overlap).raised
        /\ Len(chunk_text(t, chunk_size, overlap).chunks) > 0}

InitLive ==
    /\ ct = ctIdle
    /\ fnIdle
    /\ config \in [CHUNK_SIZE : 1..StageChunkSize, CHUNK_OVERLAP : 0..StageChunkSize,
                   EMBED_SUCCESS_MIN_RATIO : MinRatios]
    /\ queue = {baseMessage}
    /\ \E text \in ChunkedTexts(config.CHUNK_SIZE, config.CHUNK_OVERLAP),
          m \in {x \in LegacyManifests :
                    x.state # "json" \/ ~manifest_complete(x.chunks, x.embedded)} :
          s3 = [emptyStore EXCEPT !.texts["b1"]["t1"] = TextObject(text),
                                  !.manifest["b1"]["d1"] = m]
    /\ sqs = {}
    /\ inv = [i \in SeqInvs |-> idleInv]
    /\ runs = 0

\* the transport delivers the message for the first time, or again after an
\* invocation that failed or was interrupted
Redeliver(i, m) ==
    /\ inv[i].pc \in {"idle", "failed", "crashed"}
    /\ Deliver(i, m)

NextLive ==
    \/ \E i \in DOMAIN inv, m \in queue : Redeliver(i, m)
    \/ \E i \in DOMAIN inv, f \in BOOLEAN : CheckManifest(i, f)
    \/ \E i \in DOMAIN inv, f \in FailChoices : SkipForward(i, f)
    \/ \E i \in DOMAIN inv, f \in FailChoices : Download(i, f)
    \/ \E i \in DOMAIN inv, o \in InvokeChoices : InvokeModel(i, o)
    \/ \E i \in DOMAIN inv, f \in FailChoices : PutArtifact(i, f)
    \/ \E i \in DOMAIN inv, f \in FailChoices : PutManifest(i, f)
    \/ \E i \in DOMAIN inv, f \in FailChoices : Forward(i, f)
    \/ \E i \in DOMAIN inv : MayFail /\ Crash(i)

\* the transport keeps delivering and a running invocation keeps running
SpecLive == InitLive /\ [][NextLive]_vars /\ WF_vars(NextLive)

\* a run of the stage wrote the manifest of the document and an envelope
\* for the document was sent
ManifestWrittenAndForwarded ==
    /\ s3.manifest["b1"]["d1"].state = "json"
    /\ s3.manifest["b1"]["d1"].by > 0
    /\ \E e \in sqs : e.body.document_id = "d1"

\* a delivery starts from the message alone: every local of the invocation
\* is the initial one, whatever the invocation before it left
StartsFromMessage ==
    \A i \in DOMAIN inv :
        inv'[i].run # inv[i].run =>
            \E m \in queue :
                inv'[i] = [idleInv EXCEPT !.run = inv'[i].run, !.message = m, !.pc = "check"]

\* C33: when the transport delivers the message again after every failed or
\* interrupted invocation, the text has a chunk and the calls succeed in the
\* end, a manifest is written and an envelope forwarded, every delivery
\* starting from the message and the manifest check alone.
C33_EventualCompletion == <>ManifestWrittenAndForwarded /\ [][StartsFromMessage]_vars

\* C33 witness: the third delivery completed after an interrupted one and
\* one that failed the success ratio
C33_Witness ==
    /\ ManifestWrittenAndForwarded
    /\ runs = 3
    /\ \E i \in DOMAIN inv : inv[i].pc = "done" /\ inv[i].path = "fresh" /\ inv[i].run = 3


(***************************************************************************)
(* Properties of the manifests the stage writes                            *)
(***************************************************************************)
\* the manifest of the message of invocation i as its check read it
SeenManifest(i) ==
    inv[i].world.manifest[bucket_of(inv[i].message)][inv[i].message.document_id]

\* C34: every manifest the stage writes has embedded >= chunks > 0; so a
\* delivery that reads a manifest written by a run takes the skip path and
\* makes no derivation call.
C34_WrittenManifestComplete ==
    /\ \A b \in Buckets, d \in DocIds :
          (s3.manifest[b][d].state = "json" /\ s3.manifest[b][d].by > 0) =>
              /\ s3.manifest[b][d].chunks > 0
              /\ s3.manifest[b][d].embedded >= s3.manifest[b][d].chunks
    /\ \A i \in DOMAIN inv :
          (/\ inv[i].pc \notin {"idle", "check"}
           /\ inv[i].seen = "json"
           /\ SeenManifest(i).by > 0) =>
              /\ inv[i].path = "skip"
              /\ ~inv[i].invoked

\* C35: on the complete-manifest skip path a failed send to the next queue is
\* raised to the transport (the delivery fails), and the invocation fetches no
\* source text, calls the derivation endpoint never and writes no artifact
\* and no manifest.
C35_SkipSendFailurePropagates ==
    \A i \in DOMAIN inv :
        LET l == inv[i]
        IN  SkipSendFailed(l) =>
                /\ l.pc = "failed"
                /\ ~l.fetched /\ ~l.invoked /\ l.entered = 0
                /\ l.wrote = <<>>

\* the stored manifest of document d in bucket b was written by the stage and
\* is COMPLETE
StageComplete(b, d) ==
    LET m == s3.manifest[b][d]
    IN  /\ m.state = "json" /\ m.by # 0
        /\ manifest_complete(m.chunks, m.embedded)

\* C36: whenever the store holds a COMPLETE manifest written by the stage for
\* a document, it holds a chunk artifact for every index 0 .. chunks-1 of that
\* document, in every reachable state, with crashes and redeliveries.
C36_CompleteManifestHasArtifacts ==
    \A b \in DOMAIN s3.manifest :
        \A d \in DOMAIN s3.manifest[b] :
            StageComplete(b, d) =>
                \A k \in 0..(s3.manifest[b][d].chunks - 1) :
                    k \in s3.artifacts[b][d]

\* C36 witness: a COMPLETE manifest for two chunks written by the stage is
\* stored while another invocation of the same document has crashed after
\* writing an artifact
C36_Witness ==
    \E b \in DOMAIN s3.manifest :
        \E d \in DOMAIN s3.manifest[b] :
            /\ StageComplete(b, d)
            /\ s3.manifest[b][d].chunks = 2
            /\ \E i \in DOMAIN inv :
                  /\ inv[i].pc = "crashed"
                  /\ inv[i].run # s3.manifest[b][d].by
                  /\ inv[i].wrote # <<>>

\* the source text of invocation i is stored and chunk_text returns no chunk
\* for it (empty or whitespace-only text)
ZeroChunks(i) ==
    LET obj == s3.texts[bucket_of(inv[i].message)][inv[i].message.text_s3_key]
        r   == chunk_text(obj.body, config.CHUNK_SIZE, config.CHUNK_OVERLAP)
    IN  /\ inv[i].pc # "idle"
        /\ obj.exists /\ ~r.raised /\ Len(r.chunks) = 0

C39_LatestPointsToStoredVersion ==
    sm.latest_version # NoLatest => sm.latest_version \in DOMAIN sm.stored

\* C39 witness: one save failed at its version write and never reached the
\* pointer update, another with a different version created its item and
\* moved the pointer to it
C39_Witness ==
    \E i, j \in 1..MaxSaves :
        /\ sm.inv[i].pc = "failed" /\ sm.inv[i].raised = "ClientError"
        /\ ~sm.inv[i].created /\ ~sm.inv[i].executed
        /\ sm.inv[i].version \notin DOMAIN sm.stored
        /\ sm.inv[j].created /\ sm.inv[j].latest = "updated"
        /\ sm.latest_version = sm.inv[j].version
        /\ sm.inv[j].version \in DOMAIN sm.stored

(***************************************************************************)
(* Specification of a payload on its way from the strict schema validator  *)
(* to the validation stage: validate_sow_data_strict is called; the data   *)
(* it returns is what extract_structured_data forwards as structured_data, *)
(* and both the validate_data handler and validate_structured_data are run *)
(* on it.                                                                  *)
(***************************************************************************)
\* the returned data is handed to the handler (in a message with a
\* document_id) and to the rule engine
AcceptedHandover(today, url) ==
    /\ sv.pc = "returned"
    /\ vr = vrIdle /\ vd = vdIdle
    /\ vr' = [vrIdle EXCEPT !.pc = "loop", !.data = sv.returned, !.today = today]
    /\ vd' = [vdIdle EXCEPT !.pc = "delivered",
                            !.message = JObj(<<[k |-> "document_id", v |-> DocId],
                                               [k |-> "structured_data", v |-> sv.returned]>>),
                            !.NEXT_QUEUE_URL = url,
                            !.today = today]
    /\ UNCHANGED <<ct, stageVars, ge, sv, ex, sm, et, bt>>

NextAccepted ==
    \/ NextSchema
    \/ \E today \in Todays, url \in QueueUrls : AcceptedHandover(today, url)
    \/ NextRules
    \/ NextValidate

SpecAccepted == InitSchema /\ [][NextAccepted]_vars

\* C37: for every payload validate_sow_data_strict returns, the checks of the
\* validate_data handler and validate_structured_data both end with a
\* verdict and raise nothing, and the handler forwards the document when it
\* has a queue to send to.
C37_AcceptedPayloadsEvaluate ==
    sv.pc = "returned" =>
        /\ vr.pc # "raised"
        /\ vd.raised \in {"none", "ClientError"}
        /\ (vd.pc = "done" /\ vd.NEXT_QUEUE_URL # "") => Len(vd.sent) = 1

(***************************************************************************)
(* Specification of the loop "for record in event['Records']" of a stage   *)
(* handler, for chunk_and_embed and validate_data: a batch of records is   *)
(* delivered, each record is processed by the steps of its stage, an       *)
(* exception leaves the handler, and the transport delivers the whole      *)
(* batch again.                                                            *)
(***************************************************************************)
MaxDeliveries == 2
BatchSize == 2

\* records of chunk_and_embed: two well-formed ones and one without
\* text_s3_key
BtChunkRecords == {baseMessage, upstreamMessage, [document_id |-> "d1"]}

\* records of validate_data: well-formed, one whose day_rates is null, one
\* without document_id
BtVdRecords ==
    {JObj(<<[k |-> "document_id", v |-> DocId],
            [k |-> "structured_data",
             v |-> SD(Acme, D_2025_01_01, D_2025_12_31, JNum(50000),
                      JArr(<<RateItem(JNum(500))>>))]>>),
     JObj(<<[k |-> "document_id", v |-> DocId],
            [k |-> "structured_data",
             v |-> SD(Beta, D_2025_01_01, D_2025_12_31, JNum(50000), JNull)]>>),
     JObj(<<[k |-> "structured_data",
             v |-> SD(Acme, D_2025_01_01, D_2025_12_31, JNum(50000), JArr(<<>>))]>>)}

InitBatchChunk ==
    /\ ct = ctIdle
    /\ ge = geIdle /\ sv = svIdle /\ ex = exIdle /\ vr = vrIdle
    /\ vd = vdIdle /\ sm = smIdle /\ et = etIdle
    /\ config = [CHUNK_SIZE |-> 1, CHUNK_OVERLAP |-> 0, EMBED_SUCCESS_MIN_RATIO |-> 95]
    /\ queue = {}
    /\ s3 = [emptyStore EXCEPT !.texts["b1"]["t1"] = TextObject(<<"a">>)]
    /\ sqs = {}
    /\ inv = [i \in SeqInvs |-> idleInv]
    /\ runs = 0
    /\ \E records \in [1..BatchSize -> BtChunkRecords] :
          bt = [btIdle EXCEPT !.pc = "delivered", !.stage = "chunk_and_embed",
                              !.records = records]

InitBatchValidate ==
    /\ ct = ctIdle
    /\ stageUnused
    /\ ge = geIdle /\ sv = svIdle /\ ex = exIdle /\ vr = vrIdle
    /\ sm = smIdle /\ et = etIdle
    /\ \E url \in QueueUrls :
          vd = [vdIdle EXCEPT !.NEXT_QUEUE_URL = url, !.today = Ordinal(2025, 6, 1)]
    /\ \E records \in [1..BatchSize -> BtVdRecords] :
          bt = [btIdle EXCEPT !.pc = "delivered", !.stage = "validate_data",
                              !.records = records]

InitBatch == InitBatchChunk \/ InitBatchValidate

\* the loop body is entered for record k
BtEnter(k) ==
    IF bt.stage = "chunk_and_embed"
    THEN /\ inv' = [inv EXCEPT ![1] = start_record(bt.records[k], runs + 1)]
         /\ runs' = runs + 1
         /\ vd' = vd
    ELSE /\ vd' = [vdIdle EXCEPT !.pc = "delivered", !.message = bt.records[k],
                                 !.NEXT_QUEUE_URL = vd.NEXT_QUEUE_URL,
                                 !.today = vd.today]
         /\ UNCHANGED <<inv, runs>>

\* where the processing of the current record stands, and what it has sent
BtRecordPc == IF bt.stage = "chunk_and_embed" THEN inv[1].pc ELSE vd.pc
BtRecordSent ==
    IF bt.stage = "chunk_and_embed" THEN Cardinality(SentBy(inv[1].run)) ELSE Len(vd.sent)
BtRecordRaised ==
    IF bt.stage = "chunk_and_embed" THEN LastError(inv[1]) ELSE vd.raised

\* lambda_handler(event, context): the transport delivers the batch, for the
\* first time or again after a failed delivery
BtInvoke ==
    /\ bt.pc \in {"delivered", "aborted"}
    /\ bt.delivery < MaxDeliveries
    /\ bt' = [bt EXCEPT !.pc = "loop", !.k = 1, !.delivery = bt.delivery + 1,
                        !.raised = "none",
                        !.processed = Append(bt.processed,
                                             [delivery |-> bt.delivery + 1, k |-> 1])]
    /\ BtEnter(1)
    /\ UNCHANGED <<ct, config, queue, s3, sqs, ge, sv, ex, vr, sm, et>>

\* the body ended without an exception: the next record, or
\* "return {'statusCode': 200}"
BtRecordDone ==
    LET end == [delivery |-> bt.delivery, k |-> bt.k, ok |-> TRUE,
                nsent |-> BtRecordSent]
    IN  /\ bt.pc = "loop"
        /\ BtRecordPc = "done"
        /\ IF bt.k < Len(bt.records)
           THEN /\ bt' = [bt EXCEPT !.k = bt.k + 1,
                                    !.ended = Append(bt.ended, end),
                                    !.processed = Append(bt.processed,
                                        [delivery |-> bt.delivery, k |-> bt.k + 1])]
                /\ BtEnter(bt.k + 1)
           ELSE /\ bt' = [bt EXCEPT !.pc = "returned", !.ended = Append(bt.ended, end)]
                /\ UNCHANGED <<inv, runs, vd>>
        /\ UNCHANGED <<ct, config, queue, s3, sqs, ge, sv, ex, vr, sm, et>>

\* the except block re-raised: the exception leaves the loop and the handler
BtRecordFailed ==
    /\ bt.pc = "loop"
    /\ BtRecordPc = "failed"
    /\ bt' = [bt EXCEPT !.pc = "aborted", !.raised = BtRecordRaised,
                        !.ended = Append(bt.ended,
                                     [delivery |-> bt.delivery, k |-> bt.k, ok |-> FALSE,
                                      nsent |-> BtRecordSent])]
    /\ UNCHANGED <<ct, config, queue, s3, sqs, inv, runs, ge, sv, ex, vr, vd, sm, et>>

NextBatch ==
    \/ BtInvoke
    \/ BtRecordDone
    \/ BtRecordFailed
    \/ \E i \in DOMAIN inv, f \in BOOLEAN : CheckManifest(i, f)
    \/ \E i \in DOMAIN inv, f \in BOOLEAN : SkipForward(i, f)
    \/ \E i \in DOMAIN inv, f \in BOOLEAN : Download(i, f)
    \/ \E i \in DOMAIN inv, o \in InvokeOutcomes : InvokeModel(i, o)
    \/ \E i \in DOMAIN inv, f \in BOOLEAN : PutArtifact(i, f)
    \/ \E i \in DOMAIN inv, f \in BOOLEAN : PutManifest(i, f)
    \/ \E i \in DOMAIN inv, f \in BOOLEAN : Forward(i, f)
    \/ NextValidate

SpecBatch == InitBatch /\ [][NextBatch]_vars

\* the records entered and the records ended, as sets
BtProcessed == {bt.processed[j] : j \in DOMAIN bt.processed}
BtEnded == {bt.ended[j] : j \in DOMAIN bt.ended}

\* records are entered in the order of the batch, each after the one before
\* it ended without an exception, and every delivery starts at the first
BtInOrder ==
    \A j \in DOMAIN bt.processed :
        LET p == bt.processed[j]
        IN  IF p.k = 1
            THEN j = 1 \/ bt.processed[j - 1].delivery = p.delivery - 1
            ELSE /\ j > 1
                 /\ bt.processed[j - 1] = [delivery |-> p.delivery, k |-> p.k - 1]
                 /\ \E e \in BtEnded : e.delivery = p.delivery /\ e.k = p.k - 1 /\ e.ok

\* a record that failed ended the invocation: no later record of the batch
\* was entered in that delivery, and the handler did not return
BtFailureAborts ==
    \A e \in BtEnded :
        ~e.ok =>
            /\ \A p \in BtProcessed : p.delivery = e.delivery => p.k <= e.k
            /\ e.delivery = bt.delivery => bt.pc = "aborted"

\* every record before an entered record was forwarded in the same
\* delivery, so a second delivery forwards the earlier records again
BtEarlierForwarded ==
    \A p \in BtProcessed :
        \A k \in 1..(p.k - 1) :
            \E e \in BtEnded : e.delivery = p.delivery /\ e.k = k /\ e.ok /\ e.nsent = 1

\* a record processed without an exception sent exactly one message, a
\* failed one none
BtOneMessageEach ==
    \A e \in BtEnded : e.nsent = IF e.ok THEN 1 ELSE 0

\* C40: in every stage handler the records of a batch are processed in
\* order; a failure at record k ends the invocation, no later record is
\* processed in it, the records before k have been forwarded and are
\* forwarded again when the batch is delivered again; every record processed
\* without an exception sends exactly one message.
C40_BatchProcessing ==
    /\ BtInOrder
    /\ BtFailureAborts
    /\ BtEarlierForwarded
    /\ BtOneMessageEach

====
